---- MODULE Spec2Model ----
(***************************************************************************)
(* Model of the heap manager of runtime/gc/heap.cc: the GC start/finish    *)
(* protocol (StartGC / FinishGC / WaitForGcToComplete), the allocation     *)
(* slow path (AllocateInternalWithGc), CollectGarbageInternal, collector   *)
(* transitions (TransitionCollector / ChangeCollector), PreZygoteFork and  *)
(* the disable-moving-GC counter.                                          *)
(*                                                                         *)
(* Every thread of Threads may call any public heap operation.  A call is  *)
(* a sequence of steps; a step is one stretch of code between two points   *)
(* where other threads can interfere (lock acquisitions, blocking waits,   *)
(* thread-state changes, unsynchronised reads of shared fields).           *)
(***************************************************************************)
EXTENDS Integers, Sequences, FiniteSets, TLC

\* ---------------------------------------------------------------- bounds
\* Largest value the disable-moving-GC counter is driven to.
MaxDisableCount == 1

\* ------------------------------------------------------------- constants
\* Sizes are counted in KiB: every size of the model is a whole number of KiB.
KB == 1
kMinConcurrentRemainingBytes == 128 * KB
kMaxConcurrentRemainingBytes == 512 * KB
\* Stands for std::numeric_limits<size_t>::max(); it is only stored and
\* compared, never used in arithmetic.
kSizeMax == 2147483647
\* A 32-bit size_t wraps at 2^32 bytes = 2^22 KiB.
kSizeWrap == 4194304
\* 2^31 bytes in KiB: the values of an int are -kIntWrap .. kIntWrap - 1.
kIntWrap == 2097152
\* RegisterNativeAllocation and RegisterNativeFree calls explored.
MaxNativeCalls == 3

\* t1 is a mutator thread; t2 is a thread of the runtime itself.
Mutators == {"t1"}
RuntimeThreads == {"t2"}
Threads == Mutators \cup RuntimeThreads
NoThread == "none"

CollectorTypes == {"MS", "CMS", "SS", "GSS"}
\* collector::GcType in declaration order.
GcTypeRank == [None |-> 0, Sticky |-> 1, Partial |-> 2, Full |-> 3]
GcTypes == {"Sticky", "Partial", "Full"}

\* Heap constructor arguments (one configuration of sizes; the collector
\* types, the zygote flag and use_tlab are drawn in Init).
initial_size == 256 * KB
growth_limit == 1024 * KB
min_free == 64 * KB
max_free == 256 * KB
\* target_utilization as a fraction UtilNum / UtilDen.
UtilNum == 1
UtilDen == 2
\* Constructor arguments explored: <<post_zygote_collector_type,
\* background_collector_type, use_tlab, Runtime::IsZygote()>>.
Configs == {<<"MS", "SS", TRUE, TRUE>>, <<"CMS", "SS", FALSE, TRUE>>,
            <<"CMS", "GSS", TRUE, FALSE>>, <<"MS", "SS", FALSE, FALSE>>}
\* Elapsed milliseconds between two GCs and GC durations in ms.
MsDeltaChoices == {0, 1000}
DurationChoices == {0, 1000}

kMovingCollector == TRUE
kUseRosAlloc == TRUE

VARIABLES
  \* ---- Heap fields
  collector_type, concurrent_gc, gc_plan, current_allocator,
  is_gc_running, last_gc_type, next_gc_type,
  gc_complete_cond,    \* threads blocked in gc_complete_cond_->Wait
  disable_moving_gc_count,
  have_zygote_space, main_space, allocator_mem_map, continuous_spaces,
  space_vector,        \* continuous_spaces_ in the vector's order
  space_range,         \* per space (and retained mapping): Begin, End, Limit
  alloc_spaces,        \* alloc_spaces_ without the large object space
  space_bytes,         \* per space: GetBytesAllocated()
  process_state,
  max_allowed_footprint, concurrent_start_bytes, num_bytes_allocated,
  last_gc_size, allocation_rate,
  zygote_creation_lock,
  \* ---- native allocation accounting
  native_bytes_allocated,          \* AtomicInteger, 32 bits signed
  native_footprint_gc_watermark, native_footprint_limit,
  native_need_to_run_finalization,
  native_registered,   \* registered allocations minus frees that did not raise
  native_calls,        \* RegisterNativeAllocation / RegisterNativeFree calls so far
  \* ---- objects and reference processing
  objects,             \* roots, fields of the plain objects, referents at GC
                       \* start, zombie fields of the finalizer references
  referent,            \* per reference object: its referent field
  mark_bits, mark_stack,
  reference_queues,    \* soft, weak, finalizer, phantom and cleared lists
  \* ---- card table
  card_table,          \* per space: the card covering one object of the space
  card_age,            \* per space: ProcessCards runs since the last store into
                       \* that object, -1 before the first store
  \* ---- checkpoints of the mutator's Thread
  state_and_flags,     \* its state, its kCheckpointRequest and kSuspendRequest flags
  checkpoint_functions,
  thread_suspend_count_lock,
  closures,            \* closures handed to RequestCheckpoint: how many, which
                       \* were accepted and which were run, in order
  suspend_count,
  debug_suspend_count,
  \* ---- zygote compacting collector
  bins,                \* bins_: <<size, position>> pairs in the multimap's order
  to_space_end,        \* End() of the collector's to-space
  forwarded,           \* the latest MarkNonForwardedObject call
  \* ---- mark-sweep collection of the plain objects
  object_card,         \* value of the card covering each plain object
  swept,               \* objects the latest sweep freed
  final_marked,        \* objects the latest final-mark pause marked
  \* ---- configuration fixed by the constructor
  post_zygote_collector_type, background_collector_type, use_tlab, is_zygote,
  sizes,               \* min_free_, max_free_, target_utilization_, growth_limit_
  \* ---- runtime around the heap
  suspend_all_owner,   \* thread between ThreadList::SuspendAll and ResumeAll
  running,             \* threads currently inside a collector's Run()
  aborted,             \* a CHECK / LOG(FATAL) killed the process
  \* ---- per thread
  pc, loc,
  hist                 \* per thread: what the call in progress has done so far

heapCfg == <<collector_type, concurrent_gc, gc_plan, current_allocator>>
heapGc == <<is_gc_running, last_gc_type, gc_complete_cond>>
heapSpaces == <<have_zygote_space, main_space, allocator_mem_map, continuous_spaces,
                space_vector, space_range, alloc_spaces>>
heapSizes == <<max_allowed_footprint, concurrent_start_bytes, next_gc_type,
               last_gc_size, native_need_to_run_finalization>>
refs == <<objects, referent, mark_bits, mark_stack, reference_queues>>
cards == <<card_table, card_age>>
checkpoints == <<state_and_flags, checkpoint_functions, thread_suspend_count_lock, closures>>
zygoteBins == <<bins, to_space_end, forwarded>>
markSweep == <<object_card, swept, final_marked>>
suspension == <<suspend_count, debug_suspend_count>>
other == <<checkpoints, zygoteBins, markSweep, suspension>>
native == <<native_bytes_allocated, native_footprint_gc_watermark,
            native_footprint_limit, native_registered, native_calls>>
config == <<post_zygote_collector_type, background_collector_type, use_tlab, is_zygote,
            sizes>>
vars == <<heapCfg, heapGc, heapSpaces, heapSizes, config, native, refs, cards, other, disable_moving_gc_count,
          process_state, num_bytes_allocated, space_bytes, allocation_rate, zygote_creation_lock,
          suspend_all_owner, running, aborted, pc, loc, hist>>

Max(a, b) == IF a >= b THEN a ELSE b
Min(a, b) == IF a <= b THEN a ELSE b

\* ------------------------------------------------------------ pure parts
IsCompactingGC(ct) == ct \in {"SS", "GSS"}

PlanFor(ct) ==
  IF IsCompactingGC(ct) THEN <<"Full">> ELSE <<"Sticky", "Partial", "Full">>

AllocatorFor(ct, tlab) ==
  IF IsCompactingGC(ct)
    THEN (IF tlab THEN "TLAB" ELSE "BumpPointer")
    ELSE (IF kUseRosAlloc THEN "RosAlloc" ELSE "DlMalloc")

ConcurrentFor(ct) == ct = "CMS"

ConcurrentStartFor(conc, footprint) ==
  IF conc
    THEN Max(footprint, kMinConcurrentRemainingBytes) - kMinConcurrentRemainingBytes
    ELSE kSizeMax

\* Heap::ChangeCollector, lines 1256-1301.
ChangeCollector(ct) ==
  IF ct # collector_type
    THEN /\ collector_type' = ct
         /\ gc_plan' = PlanFor(ct)
         /\ concurrent_gc' = ConcurrentFor(ct)
         /\ current_allocator' = AllocatorFor(ct, use_tlab)
         /\ concurrent_start_bytes' =
              ConcurrentStartFor(ConcurrentFor(ct), max_allowed_footprint)
    ELSE UNCHANGED <<heapCfg, concurrent_start_bytes>>

\* Unsigned subtraction a - b of two size_t values.
SizeSub(a, b) == IF a >= b THEN a - b ELSE kSizeWrap - (b - a)

\* The sizing arguments of the constructor as the heap stores them;
\* target_utilization_ is the fraction util_num / util_den.
DefaultSizes ==
  [min_free |-> min_free, max_free |-> max_free, util_num |-> UtilNum,
   util_den |-> UtilDen, growth_limit |-> growth_limit]

\* Heap::SetIdealFootprint: clamp to GetMaxMemory() (the growth limit).
SetIdealFootprint(target) == Min(target, sizes.growth_limit)

\* GrowTarget that applies the min_free floor before the max_free cap.
MutGrowTarget(gc_type, bytes, footprint) ==
  IF gc_type # "Sticky"
    THEN LET t == (bytes * sizes.util_den) \div sizes.util_num
         IN IF t < bytes + sizes.min_free THEN bytes + sizes.min_free
            ELSE IF t > bytes + sizes.max_free THEN bytes + sizes.max_free
            ELSE t
    ELSE IF bytes + sizes.max_free < footprint THEN bytes + sizes.max_free
         ELSE Max(bytes, footprint)

\* Footprint target chosen by GrowForUtilization (lines 2168-2192);
\* bytes / utilization is truncated to a size_t.
GrowTarget(gc_type, bytes, footprint) ==
  IF gc_type # "Sticky"
    THEN LET t == (bytes * sizes.util_den) \div sizes.util_num
         IN IF t > bytes + sizes.max_free THEN bytes + sizes.max_free
            ELSE IF t < bytes + sizes.min_free THEN bytes + sizes.min_free
            ELSE t
    ELSE IF bytes + sizes.max_free < footprint THEN bytes + sizes.max_free
         ELSE Max(bytes, footprint)

\* GrowNextGcType that compares with max_free_ instead of min_free_.
MutGrowNextGcType(gc_type, bytes, footprint, zygote) ==
  IF gc_type # "Sticky" THEN "Sticky"
  ELSE IF bytes + sizes.max_free <= footprint THEN "Sticky"
  ELSE IF zygote THEN "Partial" ELSE "Full"

GrowNextGcType(gc_type, bytes, footprint, zygote) ==
  IF gc_type # "Sticky" THEN "Sticky"
  ELSE IF bytes + sizes.min_free <= footprint THEN "Sticky"
  ELSE IF zygote THEN "Partial" ELSE "Full"

\* lines 2198-2208: remaining_bytes before the DCHECKs.
GrowRemainingBytes(rate, duration_ms, footprint) ==
  LET r0 == (rate * duration_ms) \div 1000
      r1 == Min(r0, kMaxConcurrentRemainingBytes)
      r2 == Max(r1, kMinConcurrentRemainingBytes)
  IN IF r2 > footprint THEN kMinConcurrentRemainingBytes ELSE r2

\* max_allowed_footprint_ as GrowForUtilization(gc_type, ..) leaves it.
GrowFootprint(gc_type) ==
  SetIdealFootprint(GrowTarget(gc_type, num_bytes_allocated, max_allowed_footprint))

\* line 2209: DCHECK_LE(remaining_bytes, max_allowed_footprint_) fails.
GrowDcheckFails(gc_type, duration_ms) ==
  /\ concurrent_gc
  /\ GrowRemainingBytes(allocation_rate, duration_ms, GrowFootprint(gc_type))
       > GrowFootprint(gc_type)

\* Heap::GrowForUtilization, lines 2161-2217 (ignore_max_footprint_ false).
\* In a debug build a failed DCHECK stops the function before line 2214.
GrowForUtilization(gc_type, duration_ms, debug) ==
  LET bytes == num_bytes_allocated
      footprint == GrowFootprint(gc_type)
  IN /\ last_gc_size' = bytes
     /\ next_gc_type' = GrowNextGcType(gc_type, bytes, max_allowed_footprint,
                                       have_zygote_space)
     /\ max_allowed_footprint' = footprint
     \* line 2176
     /\ native_need_to_run_finalization' =
          (gc_type # "Sticky" \/ native_need_to_run_finalization)
     /\ concurrent_start_bytes' =
          IF concurrent_gc /\ ~(debug /\ GrowDcheckFails(gc_type, duration_ms))
            THEN Max(SizeSub(footprint,
                             GrowRemainingBytes(allocation_rate, duration_ms, footprint)),
                     bytes)
            ELSE concurrent_start_bytes

\* ----------------------------------------------------------- thread state
NoLoc == [op |-> "none", ret |-> "none", gc_type |-> "None", soft |-> FALSE,
          compacting |-> FALSE, result |-> "None", allocator |-> "none",
          was_default |-> FALSE, idx |-> 0, end |-> 0, ptr |-> FALSE,
          target |-> "none", outcome |-> "none", bytes |-> 0, expected_size |-> 0,
          new_size |-> 0, reached |-> {}, function |-> 0,
          old_state_and_flags |-> [state |-> "Runnable", checkpoint_request |-> FALSE,
                                  suspend_request |-> FALSE],
          available_checkpoint |-> 0, checkpoints |-> <<>>, seen |-> 0,
          delta |-> 0, for_debugger |-> FALSE]

\* History of the call a thread is making.
\*   stage     last slow-path step of AllocateInternalWithGc performed:
\*             1 WaitForGcToComplete, 2 retry after the wait, 3 plan collection
\*             requested, 4 retry after a plan collection, 5 retry allowing
\*             growth, 6 soft-reference collection requested, 7 last retry,
\*             8 OutOfMemoryError thrown
\*   gcs       CollectGarbageInternal calls made
\*   cg        progress of the latest CollectGarbageInternal call
\*   soft_ran  a collector Run with clear_soft_references = true completed
\*   stale_try a TryToAllocate ran for a default-allocator request while the
\*             allocator was no longer current_allocator_
\*   warned    StartGC logged "Skipping GC due to disable moving GC count"
\*   trans     collector changes made by TransitionCollector (line 1237)
\*   ups       branch taken by UpdateProcessState: "changed" (line 347 found a
\*             new process state) or "same" (line 355)
\*   cto,cfrom target and source space of the Compact call of a transition
\*   ev        the passes ProcessReferences has made over the queues, in
\*             order ("finalizer" once per reference it enqueued), or what
\*             RegisterNativeAllocation has done, in order: "fin" for a
\*             RunFinalization call, "gc" for the CollectGarbageInternal call
\*             of line 2414, "gc_for_alloc" for that of line 2426, "request"
\*             for RequestConcurrentGC
\*   raised    the FetchAndAdd of RegisterNativeAllocation left the native
\*             counter above native_footprint_limit_
\*   over      line 2413 of RegisterNativeAllocation found the native counter
\*             above native_footprint_limit_
NoHist == [stage |-> 0, gcs |-> 0, cg |-> "none", soft_ran |-> FALSE,
           stale_try |-> FALSE, warned |-> FALSE, trans |-> 0, ups |-> "none",
           cto |-> "none", cfrom |-> "none", ev |-> <<>>, raised |-> FALSE,
           over |-> FALSE]

\* ------------------------------------------------------------------ spaces
\* Addresses are counted in units; every memory mapping of the heap is
\* MapUnits long and starts at a multiple of MapUnits.
MapUnits == 4
\* The mappings the constructor creates (lines 184-237) in the address order
\* the kernel chose: the malloc space's, the two bump pointer spaces' and, in
\* the zygote, the post-zygote non-moving space's.
MemMaps == {"malloc", "bump", "temp", "post_zygote"}
MapChoices == {m \in [MemMaps -> 0..3] : \A a, b \in MemMaps : a # b => m[a] # m[b]}
DefaultMaps == [malloc |-> 0, bump |-> 1, temp |-> 2, post_zygote |-> 3]

AllSpaces == {"bump_pointer_space", "temp_space", "malloc_space", "main_space",
              "non_moving_space", "large_object_space"}
NoRange == [begin |-> 0, end |-> 0, limit |-> 0]
WholeMap(slot) ==
  [begin |-> slot * MapUnits, end |-> (slot + 1) * MapUnits, limit |-> (slot + 1) * MapUnits]

\* std::sort of lines 433-437 by Begin().
\* The spaces of a list start at different addresses: the i-th space of the
\* sorted list is the one with i - 1 spaces starting below it.
SortByBegin(v, rng) ==
  LET Sorted(w, begin) ==
        [i \in 1..Len(w) |->
           CHOOSE s \in DOMAIN begin :
             Cardinality({u \in DOMAIN begin : begin[u] < begin[s]}) = i - 1]
  IN CHOOSE sorted \in {Sorted(w, begin) :
                          w \in {v},
                          begin \in {[u \in {v[i] : i \in 1..Len(v)} |-> rng[u].begin]}} :
       TRUE

\* AddSpace that appends the space and leaves the vector as it is.
MutAddSpace(v, rng, s) == Append(v, s)

\* Heap::AddSpace for a continuous space, lines 408-437.
AddSpace(v, rng, s) == SortByBegin(Append(v, s), rng)

\* Heap::RemoveSpace for a continuous space, lines 459-460.
RemoveSpace(v, s) ==
  LET i == CHOOSE k \in 1..Len(v) : v[k] = s IN
    SubSeq(v, 1, i - 1) \o SubSeq(v, i + 1, Len(v))

\* Constructor, lines 184-221: the spaces on the mappings `maps`.
ConstructedRanges(maps) ==
  [s \in AllSpaces |->
     CASE s = "bump_pointer_space" -> WholeMap(maps["bump"])
       [] s = "temp_space" -> WholeMap(maps["temp"])
       [] s = "malloc_space" -> [begin |-> maps["malloc"] * MapUnits,
                                 end |-> maps["malloc"] * MapUnits + 1,
                                 limit |-> (maps["malloc"] + 1) * MapUnits]
       [] s = "non_moving_space" -> WholeMap(maps["post_zygote"])
       [] OTHER -> NoRange]

\* The space a new object of the current allocator goes to.
DefaultAllocSpace(ct, has_main) ==
  IF IsCompactingGC(ct) THEN "bump_pointer_space"
  ELSE IF has_main THEN "main_space" ELSE "malloc_space"

\* The fields of the heap as Heap::Heap leaves them for sizing arguments sz
\* and initial size isize on the mappings `maps`, with `bytes` KiB allocated
\* since.
HeapFieldsAt(sz, isize, bytes, maps) ==
  /\ \E c \in Configs :
       /\ post_zygote_collector_type = c[1]
       /\ background_collector_type = c[2]
       /\ use_tlab = c[3]
       /\ is_zygote = c[4]
  /\ sizes = sz
  \* constructor, lines 158-163: ChangeCollector from kCollectorTypeNone
  /\ collector_type = IF ~is_zygote \/ ~kMovingCollector
                        THEN post_zygote_collector_type ELSE "SS"
  /\ gc_plan = PlanFor(collector_type)
  /\ concurrent_gc = ConcurrentFor(collector_type)
  /\ current_allocator = AllocatorFor(collector_type, use_tlab)
  /\ max_allowed_footprint = isize
  /\ concurrent_start_bytes = ConcurrentStartFor(concurrent_gc, isize)
  /\ is_gc_running = FALSE
  /\ last_gc_type = "None"
  /\ gc_complete_cond = {}
  /\ next_gc_type = "Partial"
  /\ disable_moving_gc_count = 0
  /\ have_zygote_space = FALSE
  /\ main_space = FALSE
  /\ allocator_mem_map = FALSE
  /\ continuous_spaces = {"bump_pointer_space", "temp_space", "malloc_space"}
  \* constructor, lines 205-213: AddSpace of the bump pointer space, the temp
  \* space and the malloc space
  /\ space_range = ConstructedRanges(maps)
  /\ space_vector =
       AddSpace(AddSpace(AddSpace(<<>>, space_range, "bump_pointer_space"),
                         space_range, "temp_space"),
                space_range, "malloc_space")
  /\ alloc_spaces = {"bump_pointer_space", "temp_space", "malloc_space"}
  /\ space_bytes = [s \in AllSpaces |->
                      IF s = DefaultAllocSpace(collector_type, FALSE) THEN bytes ELSE 0]
  /\ process_state = "JankPerceptible"
  /\ num_bytes_allocated = bytes
  /\ last_gc_size = 0
  /\ allocation_rate = 0
  /\ zygote_creation_lock = NoThread
  \* constructor, lines 110-112 and 119
  /\ native_footprint_gc_watermark = isize
  /\ native_footprint_limit = 2 * isize
  /\ native_need_to_run_finalization = FALSE
  /\ native_bytes_allocated = 0
  /\ native_registered = 0
  /\ native_calls = 0
  /\ suspend_all_owner = NoThread
  /\ running = {}
  /\ aborted = FALSE
  /\ pc = [t \in Threads |-> "idle"]
  /\ loc = [t \in Threads |-> NoLoc]
  /\ hist = [t \in Threads |-> NoHist]

\* The heap on the default mappings.
HeapFields(sz, isize, bytes) == HeapFieldsAt(sz, isize, bytes, DefaultMaps)

\* Reference objects (two soft, one weak, one finalizer, one phantom
\* reference) and plain objects a process may hold.
RefObjects == {"s1", "s2", "w1", "f1", "p1"}
PlainObjects == {"a", "b", "c"}
KindOf == [s1 |-> "soft", s2 |-> "soft", w1 |-> "weak", f1 |-> "finalizer",
           p1 |-> "phantom"]
\* Constructor, lines 99-103: the five reference queues start empty.
NoQueued == [soft |-> <<>>, weak |-> <<>>, finalizer |-> <<>>, phantom |-> <<>>,
             cleared |-> <<>>]
\* A heap in which nothing has been allocated yet.
NoObjects ==
  /\ objects = [roots |-> {}, fields |-> [o \in PlainObjects |-> {}],
                at_start |-> [r \in RefObjects |-> "null"],
                zombie |-> [r \in RefObjects |-> "null"]]
  /\ referent = [r \in RefObjects |-> "null"]
  /\ mark_bits = {}
  /\ mark_stack = {}
  /\ reference_queues = NoQueued

\* ----------------------------------------------------------- card table
\* Card values: CLEAN, DIRTY = 0x70 and, while a card ages, DIRTY - 1.
kCardClean == 0
kCardDirty == 112
\* card_age stops counting at this many ProcessCards runs.
MaxCardAge == 2
\* The spaces a card of the model can cover.
CardSpaces == {"bump_pointer_space", "temp_space", "malloc_space", "main_space",
               "non_moving_space"}
\* Constructor, lines 240-242: the card table is created clean.
NoCards ==
  /\ card_table = [s \in CardSpaces |-> kCardClean]
  /\ card_age = [s \in CardSpaces |-> -1]

\* The aging modifier handed to ModifyCardsAtomic at line 2002:
\* DIRTY becomes DIRTY - 1, every other value becomes CLEAN.
AgeCardVisitor(card) == IF card = kCardDirty THEN card - 1 ELSE kCardClean
\* ModUnionTable::ClearCards: the table records the covered cards that are
\* not clean and clears them.
ClearCards(card) == kCardClean
\* Heap::FindModUnionTableFromSpace, lines 1977-1983: PreZygoteFork gives the
\* zygote space (the former malloc space) a table at lines 1451-1455.
FindModUnionTableFromSpace(s) == s = "malloc_space" /\ have_zygote_space
\* space->GetType() == kSpaceTypeBumpPointerSpace.
IsBumpPointerSpace(s) == s \in {"bump_pointer_space", "temp_space"}

\* ProcessCard that clears the cards of a space without a table as it does
\* those of a space with one.
MutProcessCard(s, card) ==
  IF FindModUnionTableFromSpace(s) \/ ~IsBumpPointerSpace(s)
    THEN ClearCards(card)
    ELSE card

\* Heap::ProcessCards, lines 1985-2005, for the card of one space.
ProcessCard(s, card) ==
  IF FindModUnionTableFromSpace(s)
    THEN ClearCards(card)
    ELSE IF ~IsBumpPointerSpace(s) THEN AgeCardVisitor(card) ELSE card

\* Heap::ProcessCards over continuous_spaces_; every collector's marking
\* phase calls it once.
ProcessCards ==
  /\ card_table' = [s \in CardSpaces |->
                      IF s \in continuous_spaces THEN ProcessCard(s, card_table[s])
                                                ELSE card_table[s]]
  /\ card_age' = [s \in CardSpaces |->
                    IF s \in continuous_spaces /\ card_age[s] >= 0
                                               /\ card_age[s] < MaxCardAge
                      THEN card_age[s] + 1 ELSE card_age[s]]

\* ---------------------------------------------------- thread checkpoints
kMaxCheckpoints == 3
\* Thread::Thread, lines 972-973, and a thread that runs managed code: no
\* checkpoint is installed, the flag is clear.
NoCheckpoints ==
  /\ state_and_flags = [state |-> "Runnable", checkpoint_request |-> FALSE,
                                  suspend_request |-> FALSE]
  /\ checkpoint_functions = [i \in 1..kMaxCheckpoints |-> 0]
  /\ thread_suspend_count_lock = NoThread
  /\ closures = [requested |-> 0, accepted |-> {}, ran |-> <<>>]
  \* Thread::Thread, lines 926 and 952
  /\ suspend_count = 0
  /\ debug_suspend_count = 0

\* --------------------------------------------- zygote compacting collector
\* Sizes and addresses are counted in units of kObjectAlignment.  The
\* non-moving space that BuildBins walks spans [0, SpaceUnits).
SpaceUnits == 8
\* No zygote compacting collector has been constructed.
NoBins ==
  /\ bins = <<>>
  /\ to_space_end = SpaceUnits
  /\ forwarded = [built |-> FALSE, n |-> 0, object_size |-> 0, forward_address |-> 0,
                  bins_before |-> <<>>, end_before |-> 0, live |-> {}, placed |-> <<>>]

\* No mark-sweep collection has run and no card of an object is dirty.
NoMarkSweep ==
  /\ object_card = [o \in PlainObjects |-> kCardClean]
  /\ swept = {}
  /\ final_marked = {}

HeapInit(sz, isize, bytes) ==
  /\ HeapFields(sz, isize, bytes)
  /\ NoObjects /\ NoCards /\ NoCheckpoints /\ NoBins /\ NoMarkSweep

Init == HeapInit(DefaultSizes, initial_size, 0)


\* ------------------------------------------------------------- utilities
Goto(t, p) == pc' = [pc EXCEPT ![t] = p]
SetLoc(t, r) == loc' = [loc EXCEPT ![t] = r]
SetHist(t, h) == hist' = [hist EXCEPT ![t] = h]
\* History after one more call of CollectGarbageInternal.
Called(h) == [h EXCEPT !.gcs = @ + 1, !.cg = "none"]
\* Locals of a call that has returned with `outcome`.
DoneLoc(t, outcome) == [NoLoc EXCEPT !.op = loc[t].op, !.outcome = outcome]
\* Locals of the caller when CollectGarbageInternal returns `res` to it.
CgiReturn(t, res) ==
  IF loc[t].ret = "done"
    THEN SetLoc(t, DoneLoc(t, res))
    ELSE SetLoc(t, [loc[t] EXCEPT !.result = res, !.gc_type = "None", !.soft = FALSE,
                                  !.compacting = FALSE, !.ret = "none"])

\* The thread is Runnable and executing heap code that contains no suspend
\* check: ThreadList::SuspendAll has to wait until it leaves these points.
\* (All other points are thread-state changes, blocking waits, or code run in
\* a kWaiting* state, where a suspension request is honoured or not needed.)
UnsafePcs == {"a_try1", "a_loop", "a_try_loop", "a_grow", "a_soft", "a_try_soft",
              "a_oom"}
Unsafe(u) == pc[u] \in UnsafePcs \/ (pc[u] = "g_enter" /\ loc[u].op = "alloc")

\* A thread may become (or be) Runnable only while no SuspendAll is in force.
CanRun == suspend_all_owner = NoThread

\* Condition under which StartGC refuses to start (lines 1646-1649).
StartGCRefuses(is_compacting) == is_compacting /\ disable_moving_gc_count # 0

\* WaitForGcToCompleteLocked, lines 2086-2102, for a caller that holds
\* gc_complete_lock_: the caller is not blocked in gc_complete_cond_->Wait
\* (never entered it, or a Broadcast woke it) and tests is_gc_running_ again.
Awake(t) == t \notin gc_complete_cond
\* line 2092: the test found a GC running; the caller blocks in Wait.
CondWait(t) == gc_complete_cond' = gc_complete_cond \cup {t}

\* Element read by a range-for over gc_plan_ whose end was cached in `end`:
\* an index past the current vector reads a stale or freed slot.
PlanReads(i) == IF i <= Len(gc_plan) THEN {gc_plan[i]} ELSE GcTypes

\* gc_plan_.back()
PlanBack == gc_plan[Len(gc_plan)]
\* Values a call of gc_plan_.back() can read: on an empty vector the element
\* before begin(), whatever it holds.
PlanBackReads == IF gc_plan # <<>> THEN {PlanBack} ELSE GcTypes

\* ----------------------------------------------- CollectGarbageInternal
\* Call of CollectGarbageInternal(gc_type, cause, clear_soft) by thread t,
\* returning to pc `ret` of the caller.
CallCgi(t, gc_type, soft, ret) ==
  /\ Goto(t, "g_enter")
  /\ SetLoc(t, [loc[t] EXCEPT !.gc_type = gc_type, !.soft = soft, !.ret = ret,
                               !.result = "None"])
  /\ SetHist(t, Called(hist[t]))

\* lines 1513-1536: the partial-GC special case and the read of collector_type_.
CgiEnter(t) ==
  /\ pc[t] = "g_enter" /\ ~aborted
  /\ IF loc[t].gc_type = "Partial" /\ ~have_zygote_space
       THEN /\ Goto(t, loc[t].ret)
            /\ CgiReturn(t, "None")
            /\ UNCHANGED hist
       ELSE /\ Goto(t, "g_start")
            /\ SetLoc(t, [loc[t] EXCEPT !.compacting = IsCompactingGC(collector_type)])
            /\ UNCHANGED hist
  /\ UNCHANGED <<heapCfg, heapGc, heapSpaces, heapSizes, config, native, refs, cards, other, disable_moving_gc_count,
                 process_state, num_bytes_allocated, space_bytes, allocation_rate,
                 zygote_creation_lock, suspend_all_owner, running, aborted>>

\* CgiStartGC with `is_gc_running_ = true` moved above the test of
\* disable_moving_gc_count_: a refused collection leaves the flag set.
MutCgiStartGC(t) ==
  /\ pc[t] = "g_start" /\ ~aborted
  /\ Awake(t)
  /\ IF is_gc_running
       THEN /\ CondWait(t)
            /\ UNCHANGED <<is_gc_running, last_gc_type, pc, loc, hist>>
       ELSE /\ is_gc_running' = TRUE
            /\ IF StartGCRefuses(loc[t].compacting)
                 THEN /\ Goto(t, loc[t].ret)
                      /\ CgiReturn(t, "None")
                      /\ UNCHANGED <<last_gc_type, gc_complete_cond, hist>>
                 ELSE /\ Goto(t, "g_select")
                      /\ SetHist(t, [hist[t] EXCEPT !.cg = "started"])
                      /\ UNCHANGED <<last_gc_type, gc_complete_cond, loc>>
  /\ UNCHANGED <<heapCfg, heapSpaces, heapSizes, config, native, refs, cards, other, disable_moving_gc_count,
                 process_state, num_bytes_allocated, space_bytes, allocation_rate,
                 zygote_creation_lock, suspend_all_owner, running, aborted>>

\* lines 1537-1539 with Heap::StartGC, lines 1639-1652.
CgiStartGC(t) ==
  /\ pc[t] = "g_start" /\ ~aborted
  /\ Awake(t)
  /\ IF is_gc_running
       THEN /\ CondWait(t)
            /\ UNCHANGED <<is_gc_running, last_gc_type, pc, loc, hist>>
       ELSE IF StartGCRefuses(loc[t].compacting)
         THEN /\ Goto(t, loc[t].ret)
              /\ CgiReturn(t, "None")
              /\ UNCHANGED <<heapGc, hist>>
         ELSE /\ is_gc_running' = TRUE
              /\ Goto(t, "g_select")
              /\ SetHist(t, [hist[t] EXCEPT !.cg = "started"])
              /\ UNCHANGED <<last_gc_type, gc_complete_cond, loc>>
  /\ UNCHANGED <<heapCfg, heapSpaces, heapSizes, config, native, refs, cards, other, disable_moving_gc_count,
                 process_state, num_bytes_allocated, space_bytes, allocation_rate,
                 zygote_creation_lock, suspend_all_owner, running, aborted>>

\* lines 1544-1587: allocation-rate estimate, collector selection, Run() entry.
\* A failed DCHECK aborts a debug build and is skipped by a release build.
CgiSelect(t) ==
  /\ pc[t] = "g_select" /\ ~aborted
  /\ \E ms_delta \in MsDeltaChoices :
       allocation_rate' =
         IF ms_delta # 0 /\ num_bytes_allocated >= last_gc_size
           THEN ((num_bytes_allocated - last_gc_size) * 1000) \div ms_delta
           ELSE allocation_rate
  /\ IF loc[t].compacting
       THEN \/ /\ current_allocator \notin {"BumpPointer", "TLAB"}
               /\ aborted' = TRUE
               /\ UNCHANGED <<pc, loc, running>>
            \/ /\ SetLoc(t, [loc[t] EXCEPT !.gc_type = "Full"])
               /\ running' = running \cup {t}
               /\ Goto(t, "g_running")
               /\ UNCHANGED aborted
       ELSE IF current_allocator \in {"RosAlloc", "DlMalloc"}
         THEN /\ running' = running \cup {t}
              /\ Goto(t, "g_running")
              /\ UNCHANGED <<loc, aborted>>
         ELSE /\ aborted' = TRUE
              /\ UNCHANGED <<pc, loc, running>>
  /\ UNCHANGED <<heapCfg, heapGc, heapSpaces, heapSizes, config, native, refs, cards, other, disable_moving_gc_count,
                 process_state, num_bytes_allocated, space_bytes, zygote_creation_lock,
                 suspend_all_owner, hist>>

\* Bytes a collection may leave allocated (Heap::RecordFree, lines 936-938,
\* called by the collector): nothing freed, or everything freed.
AfterFree == {num_bytes_allocated, 0}
\* A collection that frees nothing or everything: the spaces are left with
\* the bytes `left` or with none, and RecordFree subtracts what was freed.
RecordFree(all, left) ==
  /\ num_bytes_allocated' = IF all THEN 0 ELSE num_bytes_allocated
  /\ space_bytes' = IF all THEN [s \in AllSpaces |-> 0] ELSE left
\* The bytes per space after a copying collection moved the objects of
\* space `from` to space `to`.
Moved(from, to) ==
  [space_bytes EXCEPT ![to] = space_bytes[to] + space_bytes[from], ![from] = 0]

\* line 1587: collector->Run(gc_cause, clear_soft_references) returns.
CgiRunEnd(t) ==
  /\ pc[t] = "g_running" /\ ~aborted
  /\ running' = running \ {t}
  /\ ProcessCards
  /\ \E all \in BOOLEAN : RecordFree(all, space_bytes)
  /\ Goto(t, "g_grow")
  /\ SetHist(t, [hist[t] EXCEPT !.cg = "ran", !.soft_ran = @ \/ loc[t].soft])
  /\ UNCHANGED <<heapCfg, heapGc, heapSpaces, heapSizes, config, native, refs, other, disable_moving_gc_count,
                 process_state, allocation_rate, zygote_creation_lock,
                 suspend_all_owner, aborted, loc>>

\* lines 1588-1596: EnqueueClearedReferences, GrowForUtilization.
CgiGrow(t) ==
  /\ pc[t] = "g_grow" /\ ~aborted
  /\ \E d \in DurationChoices, debug \in BOOLEAN :
       /\ GrowForUtilization(loc[t].gc_type, d, debug)
       /\ IF debug /\ GrowDcheckFails(loc[t].gc_type, d)
            THEN aborted' = TRUE /\ UNCHANGED <<pc, hist>>
            ELSE /\ Goto(t, "g_finish")
                 /\ SetHist(t, [hist[t] EXCEPT !.cg = "grown"])
                 /\ UNCHANGED aborted
  /\ UNCHANGED <<heapCfg, heapGc, heapSpaces, config, native, refs, cards, other, disable_moving_gc_count,
                 process_state, num_bytes_allocated, space_bytes, allocation_rate,
                 zygote_creation_lock, suspend_all_owner, running, loc>>

\* FinishGC without gc_complete_cond_->Broadcast.
MutFinishGC(gc_type) ==
  /\ is_gc_running' = FALSE
  /\ last_gc_type' = gc_type
  /\ UNCHANGED gc_complete_cond

\* Heap::FinishGC, lines 1654-1660.
FinishGC(gc_type) ==
  /\ is_gc_running' = FALSE
  /\ last_gc_type' = gc_type
  /\ gc_complete_cond' = {}

\* lines 1631-1636.
CgiFinish(t) ==
  /\ pc[t] = "g_finish" /\ ~aborted
  /\ FinishGC(loc[t].gc_type)
  /\ Goto(t, loc[t].ret)
  /\ CgiReturn(t, loc[t].gc_type)
  /\ SetHist(t, [hist[t] EXCEPT !.cg = "finished"])
  /\ UNCHANGED <<heapCfg, heapSpaces, heapSizes, config, native, refs, cards, other, disable_moving_gc_count,
                 process_state, num_bytes_allocated, space_bytes, allocation_rate,
                 zygote_creation_lock, suspend_all_owner, running, aborted>>


\* Frame of a step that touches only the calling thread's own state and
\* possibly gc_complete_cond_.
WaitFrame ==
  UNCHANGED <<heapCfg, is_gc_running, last_gc_type, heapSpaces, heapSizes, config, native, refs, cards, other,
              disable_moving_gc_count, process_state, num_bytes_allocated, space_bytes,
              allocation_rate, zygote_creation_lock, suspend_all_owner, running,
              aborted>>

\* Frame of a step that touches only the calling thread's own state.
LocalStep == WaitFrame /\ UNCHANGED gc_complete_cond

\* --------------------------------------------- AllocateInternalWithGc
\* Allocators a caller may pass: the current one, or one of the internal
\* allocators (kAllocatorTypeNonMoving / kAllocatorTypeLOS).
AllocatorChoices == {current_allocator, "NonMoving"}

\* `was_default && allocator != GetCurrentAllocator()` (lines 963, 979, 1004).
AllocatorChanged(t) == loc[t].was_default /\ loc[t].allocator # current_allocator

\* History after a TryToAllocate at slow-path step `stage`.
Tried(t, stage) ==
  [hist[t] EXCEPT !.stage = stage, !.stale_try = @ \/ AllocatorChanged(t)]

\* lines 950-959: entry, up to taking gc_complete_lock_ in WaitForGcToComplete.
AllocStart(t) ==
  /\ pc[t] = "idle" /\ ~aborted /\ CanRun
  /\ \E a \in AllocatorChoices :
       SetLoc(t, [NoLoc EXCEPT !.op = "alloc", !.allocator = a,
                               !.was_default = (a = current_allocator)])
  /\ Goto(t, "a_wait")
  /\ SetHist(t, NoHist)
  /\ LocalStep

\* WaitForGcToComplete, lines 2080-2102, first test of is_gc_running_.
AllocWait(t) ==
  /\ pc[t] = "a_wait" /\ ~aborted
  /\ IF is_gc_running
       THEN Goto(t, "a_waiting") /\ CondWait(t) /\ UNCHANGED <<loc, hist>>
       ELSE /\ Goto(t, "a_loop_init")
            /\ SetHist(t, [hist[t] EXCEPT !.stage = 1])
            /\ UNCHANGED <<loc, gc_complete_cond>>
  /\ WaitFrame

\* lines 2089-2095: the waiter, woken by a Broadcast, reads last_gc_type_ and
\* tests is_gc_running_ again.
AllocWaited(t) ==
  /\ pc[t] = "a_waiting" /\ ~aborted
  /\ Awake(t)
  /\ IF is_gc_running
       THEN CondWait(t) /\ UNCHANGED <<pc, hist>>
       ELSE /\ Goto(t, IF last_gc_type # "None" THEN "a_check1" ELSE "a_loop_init")
            /\ SetHist(t, [hist[t] EXCEPT !.stage = 1])
            /\ UNCHANGED gc_complete_cond
  /\ UNCHANGED loc
  /\ WaitFrame

\* lines 960-966: back in Runnable state, the allocator check after the wait.
AllocCheck1(t) ==
  /\ pc[t] = "a_check1" /\ ~aborted /\ CanRun
  /\ IF AllocatorChanged(t)
       THEN /\ Goto(t, "done")
            /\ SetLoc(t, DoneLoc(t, "null"))
       ELSE Goto(t, "a_try1") /\ UNCHANGED loc
  /\ UNCHANGED hist
  /\ LocalStep

\* line 968: TryToAllocate<true, false>.
AllocTry1(t) ==
  /\ pc[t] = "a_try1" /\ ~aborted
  /\ \E ok \in BOOLEAN :
       SetLoc(t, [loc[t] EXCEPT !.ptr = ok])
  /\ SetHist(t, Tried(t, 2))
  /\ Goto(t, "a_loop")
  /\ LocalStep

\* line 972: the range-for takes gc_plan_.begin() and gc_plan_.end().
AllocLoopInit(t) ==
  /\ pc[t] = "a_loop_init" /\ ~aborted /\ CanRun
  /\ Goto(t, "a_loop")
  /\ UNCHANGED <<loc, hist>>
  /\ LocalStep

\* AllocLoop that, once the plan is exhausted, goes straight to the
\* soft-reference collection without the retry that allows growth.
MutAllocLoopSkipsGrow(t) ==
  /\ pc[t] = "a_loop" /\ ~aborted
  /\ LET end == IF loc[t].idx = 0 THEN Len(gc_plan) ELSE loc[t].end
     IN IF loc[t].idx >= end \/ loc[t].ptr
          THEN /\ Goto(t, IF loc[t].ptr THEN "a_grow" ELSE "a_soft")
               /\ UNCHANGED <<loc, hist>>
          ELSE \E g \in PlanReads(loc[t].idx + 1) :
                 /\ Goto(t, "g_enter")
                 /\ SetLoc(t, [loc[t] EXCEPT !.gc_type = g, !.soft = FALSE,
                                              !.ret = "a_after_gc", !.result = "None",
                                              !.end = end, !.idx = @ + 1])
                 /\ SetHist(t, [Called(hist[t]) EXCEPT !.stage = 3])
  /\ LocalStep

\* lines 972-978: loop head and the call of CollectGarbageInternal.
\* idx counts completed iterations; end is the plan length cached at the first
\* visit.
AllocLoop(t) ==
  /\ pc[t] = "a_loop" /\ ~aborted
  /\ LET end == IF loc[t].idx = 0 THEN Len(gc_plan) ELSE loc[t].end
     IN IF loc[t].idx >= end \/ loc[t].ptr
          THEN /\ Goto(t, "a_grow")
               /\ UNCHANGED <<loc, hist>>
          ELSE \E g \in PlanReads(loc[t].idx + 1) :
                 /\ Goto(t, "g_enter")
                 /\ SetLoc(t, [loc[t] EXCEPT !.gc_type = g, !.soft = FALSE,
                                              !.ret = "a_after_gc", !.result = "None",
                                              !.end = end, !.idx = @ + 1])
                 /\ SetHist(t, [Called(hist[t]) EXCEPT !.stage = 3])
  /\ LocalStep

\* AllocAfterGc that starts the plan over when the collection did not run.
MutAllocAfterGcRestarts(t) ==
  /\ pc[t] = "a_after_gc" /\ ~aborted /\ CanRun
  /\ IF AllocatorChanged(t)
       THEN /\ Goto(t, "done")
            /\ SetLoc(t, DoneLoc(t, "null"))
       ELSE IF loc[t].result # "None"
         THEN Goto(t, "a_try_loop") /\ UNCHANGED loc
         ELSE /\ Goto(t, "a_loop")
              /\ SetLoc(t, [loc[t] EXCEPT !.idx = IF hist[t].gcs < 6 THEN 0 ELSE @])
  /\ UNCHANGED hist
  /\ LocalStep

\* lines 979-986: allocator check after the collection.
AllocAfterGc(t) ==
  /\ pc[t] = "a_after_gc" /\ ~aborted /\ CanRun
  /\ IF AllocatorChanged(t)
       THEN /\ Goto(t, "done")
            /\ SetLoc(t, DoneLoc(t, "null"))
       ELSE /\ Goto(t, IF loc[t].result # "None" THEN "a_try_loop" ELSE "a_loop")
            /\ UNCHANGED loc
  /\ UNCHANGED hist
  /\ LocalStep

\* line 985: TryToAllocate<true, false> after a collection that ran.
AllocTryLoop(t) ==
  /\ pc[t] = "a_try_loop" /\ ~aborted
  /\ \E ok \in BOOLEAN :
       SetLoc(t, [loc[t] EXCEPT !.ptr = ok])
  /\ SetHist(t, Tried(t, 4))
  /\ Goto(t, "a_loop")
  /\ LocalStep

\* lines 989-992: TryToAllocate<true, true>; lines 1013-1014 on success.
AllocGrow(t) ==
  /\ pc[t] = "a_grow" /\ ~aborted
  /\ IF loc[t].ptr
       THEN /\ Goto(t, "done")
            /\ SetLoc(t, DoneLoc(t, "obj"))
            /\ UNCHANGED hist
       ELSE \E ok \in BOOLEAN :
              /\ Goto(t, IF ok THEN "done" ELSE "a_soft")
              /\ SetLoc(t, IF ok THEN DoneLoc(t, "obj") ELSE loc[t])
              /\ SetHist(t, Tried(t, 5))
  /\ LocalStep

\* lines 993-1003: the soft-reference-clearing collection.
AllocSoft(t) ==
  /\ pc[t] = "a_soft" /\ ~aborted
  /\ Goto(t, "g_enter")
  /\ SetLoc(t, [loc[t] EXCEPT !.gc_type = PlanBack, !.soft = TRUE,
                               !.ret = "a_after_soft", !.result = "None"])
  /\ SetHist(t, [Called(hist[t]) EXCEPT !.stage = 6])
  /\ LocalStep

\* lines 1004-1007.
AllocAfterSoft(t) ==
  /\ pc[t] = "a_after_soft" /\ ~aborted /\ CanRun
  /\ IF AllocatorChanged(t)
       THEN /\ Goto(t, "done")
            /\ SetLoc(t, DoneLoc(t, "null"))
       ELSE Goto(t, "a_try_soft") /\ UNCHANGED loc
  /\ UNCHANGED hist
  /\ LocalStep

\* line 1008: last TryToAllocate<true, true>.
AllocTrySoft(t) ==
  /\ pc[t] = "a_try_soft" /\ ~aborted
  /\ \E ok \in BOOLEAN :
       /\ Goto(t, IF ok THEN "done" ELSE "a_oom")
       /\ SetLoc(t, IF ok THEN DoneLoc(t, "obj") ELSE loc[t])
  /\ SetHist(t, Tried(t, 7))
  /\ LocalStep

\* lines 1009-1014: ThrowOutOfMemoryError and return of the null pointer.
AllocThrow(t) ==
  /\ pc[t] = "a_oom" /\ ~aborted
  /\ Goto(t, "done")
  /\ SetLoc(t, DoneLoc(t, "oom"))
  /\ SetHist(t, [hist[t] EXCEPT !.stage = 8])
  /\ LocalStep

\* The call has returned to its caller.
Return(t) ==
  /\ pc[t] = "done" /\ ~aborted
  /\ Goto(t, "idle")
  /\ SetLoc(t, NoLoc)
  /\ SetHist(t, NoHist)
  /\ LocalStep


\* ------------------------------------------------------- CollectGarbage
\* Heap::CollectGarbage, lines 1166-1170.
CollectGarbage(t) ==
  /\ pc[t] = "idle" /\ ~aborted
  /\ \E soft \in BOOLEAN, back \in PlanBackReads :
       /\ Goto(t, "g_enter")
       /\ SetLoc(t, [NoLoc EXCEPT !.op = "collect", !.gc_type = back, !.soft = soft,
                               !.ret = "done"])
       /\ SetHist(t, Called(NoHist))
  /\ LocalStep

\* --------------------------------------------------------- ConcurrentGC
\* Heap::ConcurrentGC, lines 2295-2300 (the runtime is not shutting down).
ConcStart(t) ==
  /\ pc[t] = "idle" /\ ~aborted
  /\ Goto(t, "c_wait")
  /\ SetLoc(t, [NoLoc EXCEPT !.op = "concgc"])
  /\ SetHist(t, NoHist)
  /\ LocalStep

ConcWait(t) ==
  /\ pc[t] = "c_wait" /\ ~aborted
  /\ IF is_gc_running
       THEN Goto(t, "c_waiting") /\ CondWait(t)
       ELSE Goto(t, "c_call") /\ UNCHANGED gc_complete_cond
  /\ UNCHANGED <<loc, hist>>
  /\ WaitFrame

ConcWaited(t) ==
  /\ pc[t] = "c_waiting" /\ ~aborted
  /\ Awake(t)
  /\ IF is_gc_running
       THEN CondWait(t) /\ UNCHANGED <<pc, loc>>
       ELSE /\ Goto(t, IF last_gc_type = "None" THEN "c_call" ELSE "done")
            /\ SetLoc(t, IF last_gc_type = "None" THEN loc[t] ELSE DoneLoc(t, "None"))
            /\ UNCHANGED gc_complete_cond
  /\ UNCHANGED hist
  /\ WaitFrame

\* line 2303: CollectGarbageInternal(next_gc_type_, kGcCauseBackground, false).
ConcCall(t) ==
  /\ pc[t] = "c_call" /\ ~aborted
  /\ CallCgi(t, next_gc_type, FALSE, "c_after_first")
  /\ LocalStep

\* ConcAfterFirst going on to the plan whatever the first attempt returned.
MutConcAfterFirst(t) ==
  /\ pc[t] = "c_after_first" /\ ~aborted
  /\ Goto(t, "c_loop")
  /\ UNCHANGED <<loc, hist>>
  /\ LocalStep

ConcAfterFirst(t) ==
  /\ pc[t] = "c_after_first" /\ ~aborted
  /\ Goto(t, IF loc[t].result = "None" THEN "c_loop" ELSE "done")
  /\ SetLoc(t, IF loc[t].result = "None" THEN loc[t] ELSE DoneLoc(t, loc[t].result))
  /\ UNCHANGED hist
  /\ LocalStep

\* lines 2305-2311: plan entries more severe than next_gc_type_.
ConcLoop(t) ==
  /\ pc[t] = "c_loop" /\ ~aborted
  /\ LET end == IF loc[t].idx = 0 THEN Len(gc_plan) ELSE loc[t].end
     IN IF loc[t].idx >= end
          THEN Goto(t, "done") /\ SetLoc(t, DoneLoc(t, "None")) /\ UNCHANGED hist
          ELSE \E g \in PlanReads(loc[t].idx + 1) :
                 IF GcTypeRank[g] > GcTypeRank[next_gc_type]
                   THEN /\ Goto(t, "g_enter")
                        /\ SetLoc(t, [loc[t] EXCEPT !.gc_type = g, !.soft = FALSE,
                                                     !.ret = "c_after_loop",
                                                     !.result = "None",
                                                     !.end = end, !.idx = @ + 1])
                        /\ SetHist(t, Called(hist[t]))
                   ELSE /\ SetLoc(t, [loc[t] EXCEPT !.end = end, !.idx = @ + 1])
                        /\ UNCHANGED <<pc, hist>>
  /\ LocalStep

ConcAfterLoop(t) ==
  /\ pc[t] = "c_after_loop" /\ ~aborted
  /\ Goto(t, IF loc[t].result = "None" THEN "c_loop" ELSE "done")
  /\ SetLoc(t, IF loc[t].result = "None" THEN loc[t] ELSE DoneLoc(t, loc[t].result))
  /\ UNCHANGED hist
  /\ LocalStep

\* ------------------------------------ disable-moving-GC reference count
\* Heap::IncrementDisableMovingGC, lines 331-338 (under gc_complete_lock_).
\* The counter is a size_t: kSizeMax + 1 wraps to 0.
IncrementDisableMovingGC(t) ==
  /\ pc[t] = "idle" /\ ~aborted
  /\ disable_moving_gc_count < MaxDisableCount \/ disable_moving_gc_count = kSizeMax
  /\ disable_moving_gc_count' =
       IF disable_moving_gc_count = kSizeMax THEN 0 ELSE disable_moving_gc_count + 1
  /\ UNCHANGED <<heapCfg, heapGc, heapSpaces, heapSizes, config, native, refs, cards, other, process_state,
                 num_bytes_allocated, space_bytes, allocation_rate, zygote_creation_lock,
                 suspend_all_owner, running, aborted, pc, loc, hist>>

\* Heap::DecrementDisableMovingGC, lines 340-344.  CHECK_GE(count, 0U) on an
\* unsigned counter never fails; 0 - 1 wraps to kSizeMax.
DecrementDisableMovingGC(t) ==
  /\ pc[t] = "idle" /\ ~aborted
  /\ disable_moving_gc_count <= MaxDisableCount
  /\ disable_moving_gc_count' =
       IF disable_moving_gc_count = 0 THEN kSizeMax ELSE disable_moving_gc_count - 1
  /\ UNCHANGED <<heapCfg, heapGc, heapSpaces, heapSizes, config, native, refs, cards, other, process_state,
                 num_bytes_allocated, space_bytes, allocation_rate, zygote_creation_lock,
                 suspend_all_owner, running, aborted, pc, loc, hist>>


\* ---------------------------------------------------- TransitionCollector
\* lines 1172-1182: entry of TransitionCollector(target); a no-op when the
\* heap already uses the target collector.
EnterTransition(t, target, opname) ==
  IF target = collector_type
    THEN /\ Goto(t, "done")
         /\ SetLoc(t, [NoLoc EXCEPT !.op = opname])
         /\ SetHist(t, [NoHist EXCEPT !.ups = IF opname = "ups" THEN "changed" ELSE "none"])
    ELSE /\ Goto(t, "t_start")
         /\ SetLoc(t, [NoLoc EXCEPT !.op = opname, !.target = target])
         /\ SetHist(t, [NoHist EXCEPT !.ups = IF opname = "ups" THEN "changed" ELSE "none"])

\* Collector types a caller asks TransitionCollector for.
TransitionTargets == {post_zygote_collector_type, background_collector_type}

TransitionCollector(t) ==
  /\ pc[t] = "idle" /\ ~aborted
  /\ \E target \in TransitionTargets : EnterTransition(t, target, "tc")
  /\ LocalStep

\* Heap::UpdateProcessState, lines 346-357.
ProcessStates == {"JankPerceptible", "Background"}

\* UpdateProcessState with the two target collectors exchanged.
MutUpdateProcessState(t) ==
  /\ pc[t] = "idle" /\ ~aborted
  /\ \E s \in ProcessStates :
       IF process_state # s
         THEN /\ process_state' = s
              /\ EnterTransition(t, IF s = "JankPerceptible"
                                      THEN background_collector_type
                                      ELSE post_zygote_collector_type, "ups")
         ELSE /\ UNCHANGED process_state
              /\ Goto(t, "g_enter")
              /\ SetLoc(t, [NoLoc EXCEPT !.op = "ups", !.gc_type = "Full", !.ret = "done"])
              /\ SetHist(t, [Called(NoHist) EXCEPT !.ups = "same"])
  /\ UNCHANGED <<heapCfg, heapGc, heapSpaces, heapSizes, config, native, refs, cards, other, disable_moving_gc_count,
                 num_bytes_allocated, space_bytes, allocation_rate,
                 zygote_creation_lock, suspend_all_owner, running, aborted>>

UpdateProcessState(t) ==
  /\ pc[t] = "idle" /\ ~aborted
  /\ \E s \in ProcessStates :
       IF process_state # s
         THEN /\ process_state' = s
              /\ EnterTransition(t, IF s = "JankPerceptible"
                                      THEN post_zygote_collector_type
                                      ELSE background_collector_type, "ups")
         ELSE /\ UNCHANGED process_state
              /\ Goto(t, "g_enter")
              /\ SetLoc(t, [NoLoc EXCEPT !.op = "ups", !.gc_type = "Full", !.ret = "done"])
              /\ SetHist(t, [Called(NoHist) EXCEPT !.ups = "same"])
  /\ UNCHANGED <<heapCfg, heapGc, heapSpaces, heapSizes, config, native, refs, cards, other, disable_moving_gc_count,
                 num_bytes_allocated, space_bytes, allocation_rate,
                 zygote_creation_lock, suspend_all_owner, running, aborted>>

\* line 1185.
CopyingTransition ==
  IsCompactingGC(background_collector_type) \/ IsCompactingGC(post_zygote_collector_type)

\* TcStartGC that gives the transition up when StartGC refuses.
MutTcStartGC(t) ==
  /\ pc[t] = "t_start" /\ ~aborted
  /\ Awake(t)
  /\ IF is_gc_running
       THEN /\ CondWait(t)
            /\ UNCHANGED <<is_gc_running, last_gc_type, pc, loc, hist>>
       ELSE IF StartGCRefuses(CopyingTransition)
         THEN /\ SetHist(t, [hist[t] EXCEPT !.warned = TRUE])
              /\ Goto(t, "done")
              /\ SetLoc(t, DoneLoc(t, "none"))
              /\ UNCHANGED heapGc
         ELSE /\ is_gc_running' = TRUE
              /\ Goto(t, "t_suspend")
              /\ UNCHANGED <<last_gc_type, gc_complete_cond, loc, hist>>
  /\ UNCHANGED <<heapCfg, heapSpaces, heapSizes, config, native, refs, cards, other, disable_moving_gc_count,
                 process_state, num_bytes_allocated, space_bytes, allocation_rate,
                 zygote_creation_lock, suspend_all_owner, running, aborted>>

\* line 1187: one call of StartGC(self, copying_transition) in the loop
\* `while (!StartGC(...))`.  A refused StartGC logs its warning and returns
\* false.
TcStartGC(t) ==
  /\ pc[t] = "t_start" /\ ~aborted
  /\ Awake(t)
  /\ IF is_gc_running
       THEN /\ CondWait(t)
            /\ UNCHANGED <<is_gc_running, last_gc_type, pc, hist>>
       ELSE IF StartGCRefuses(CopyingTransition)
         THEN /\ SetHist(t, [hist[t] EXCEPT !.warned = TRUE])
              /\ Goto(t, "t_sleep")
              /\ UNCHANGED heapGc
         ELSE /\ is_gc_running' = TRUE
              /\ Goto(t, "t_suspend")
              /\ UNCHANGED <<last_gc_type, gc_complete_cond, hist>>
  /\ UNCHANGED <<heapCfg, heapSpaces, heapSizes, config, native, refs, cards, other, disable_moving_gc_count,
                 process_state, num_bytes_allocated, space_bytes, allocation_rate,
                 zygote_creation_lock, suspend_all_owner, running, aborted, loc>>

\* line 1188: usleep(100), then StartGC is called again.
TcSleep(t) ==
  /\ pc[t] = "t_sleep" /\ ~aborted
  /\ Goto(t, "t_start")
  /\ UNCHANGED <<loc, hist>>
  /\ LocalStep

\* line 1190: ThreadList::SuspendAll returns once every other thread is out of
\* Runnable code.
TcSuspendAll(t) ==
  /\ pc[t] = "t_suspend" /\ ~aborted
  /\ suspend_all_owner = NoThread
  /\ \A u \in Threads \ {t} : ~Unsafe(u)
  /\ suspend_all_owner' = t
  /\ Goto(t, "t_body")
  /\ UNCHANGED <<heapCfg, heapGc, heapSpaces, heapSizes, config, native, refs, cards, other, disable_moving_gc_count,
                 process_state, num_bytes_allocated, space_bytes, allocation_rate,
                 zygote_creation_lock, running, aborted, loc, hist>>

\* TcBody that, going from a moving to a non-moving collector, builds the
\* malloc space on a new mapping and keeps the retained one.
MutTcBody(t) ==
  /\ pc[t] = "t_body" /\ ~aborted
  /\ IF IsCompactingGC(loc[t].target)
       THEN IF main_space
              THEN /\ running' = running \cup {t}
                   /\ SetHist(t, [hist[t] EXCEPT !.cto = "temp_space",
                                                  !.cfrom = "main_space"])
                   /\ Goto(t, "t_compact")
                   /\ UNCHANGED <<heapSpaces, aborted>>
              ELSE /\ aborted' = TRUE
                   /\ UNCHANGED <<heapSpaces, running, pc, hist>>
       ELSE IF IsCompactingGC(collector_type)
              THEN IF allocator_mem_map /\ ~main_space
                     THEN /\ main_space' = TRUE
                          /\ continuous_spaces' = continuous_spaces \cup {"main_space"}
                          /\ space_vector' =
                               AddSpace(space_vector, space_range, "main_space")
                          /\ alloc_spaces' = alloc_spaces \cup {"main_space"}
                          /\ running' = running \cup {t}
                          /\ SetHist(t, [hist[t] EXCEPT !.cto = "main_space",
                                                         !.cfrom = "bump_pointer_space"])
                          /\ Goto(t, "t_compact")
                          /\ UNCHANGED <<allocator_mem_map, have_zygote_space, space_range,
                                         aborted>>
                     ELSE /\ aborted' = TRUE
                          /\ UNCHANGED <<heapSpaces, running, pc, hist>>
              ELSE /\ Goto(t, "t_change")
                   /\ UNCHANGED <<heapSpaces, running, aborted, hist>>
  /\ UNCHANGED <<heapCfg, heapGc, heapSizes, config, native, refs, cards, other, disable_moving_gc_count,
                 process_state, num_bytes_allocated, space_bytes, allocation_rate,
                 zygote_creation_lock, suspend_all_owner, loc>>

\* lines 1191-1231 up to the entry of the semi-space collector's Run() in
\* Compact (lines 1502-1511); a failed CHECK aborts.
TcBody(t) ==
  /\ pc[t] = "t_body" /\ ~aborted
  /\ IF IsCompactingGC(loc[t].target)
       THEN IF main_space
              THEN /\ running' = running \cup {t}
                   /\ SetHist(t, [hist[t] EXCEPT !.cto = "temp_space",
                                                  !.cfrom = "main_space"])
                   /\ Goto(t, "t_compact")
                   /\ UNCHANGED <<heapSpaces, aborted>>
              ELSE /\ aborted' = TRUE
                   /\ UNCHANGED <<heapSpaces, running, pc, hist>>
       ELSE IF IsCompactingGC(collector_type)
              THEN IF allocator_mem_map /\ ~main_space
                     THEN /\ allocator_mem_map' = FALSE
                          /\ main_space' = TRUE
                          /\ continuous_spaces' = continuous_spaces \cup {"main_space"}
                          /\ space_vector' =
                               AddSpace(space_vector, space_range, "main_space")
                          /\ alloc_spaces' = alloc_spaces \cup {"main_space"}
                          /\ running' = running \cup {t}
                          /\ SetHist(t, [hist[t] EXCEPT !.cto = "main_space",
                                                         !.cfrom = "bump_pointer_space"])
                          /\ Goto(t, "t_compact")
                          /\ UNCHANGED <<have_zygote_space, space_range, aborted>>
                     ELSE /\ aborted' = TRUE
                          /\ UNCHANGED <<heapSpaces, running, pc, hist>>
              ELSE /\ Goto(t, "t_change")
                   /\ UNCHANGED <<heapSpaces, running, aborted, hist>>
  /\ UNCHANGED <<heapCfg, heapGc, heapSizes, config, native, refs, cards, other, disable_moving_gc_count,
                 process_state, num_bytes_allocated, space_bytes, allocation_rate,
                 zygote_creation_lock, suspend_all_owner, loc>>

\* The collector's Run() returns; for a transition to SS/GSS lines 1198-1202
\* follow (the malloc space's mapping is kept, the space is removed).
TcCompactEnd(t) ==
  /\ pc[t] = "t_compact" /\ ~aborted
  /\ running' = running \ {t}
  /\ ProcessCards
  /\ \E all \in BOOLEAN : RecordFree(all, Moved(hist[t].cfrom, hist[t].cto))
  /\ IF IsCompactingGC(loc[t].target)
       THEN /\ allocator_mem_map' = TRUE
            /\ main_space' = FALSE
            /\ continuous_spaces' = continuous_spaces \ {"main_space"}
            /\ space_vector' = RemoveSpace(space_vector, "main_space")
            /\ alloc_spaces' = alloc_spaces \ {"main_space"}
            /\ UNCHANGED <<have_zygote_space, space_range>>
       ELSE UNCHANGED heapSpaces
  /\ Goto(t, "t_change")
  /\ UNCHANGED <<heapCfg, heapGc, heapSizes, config, native, refs, other, disable_moving_gc_count,
                 process_state, allocation_rate, zygote_creation_lock,
                 suspend_all_owner, aborted, loc, hist>>

\* line 1237.
TcChangeCollector(t) ==
  /\ pc[t] = "t_change" /\ ~aborted
  /\ ChangeCollector(loc[t].target)
  /\ SetHist(t, [hist[t] EXCEPT !.trans = @ + 1])
  /\ Goto(t, "t_resume")
  /\ UNCHANGED <<heapGc, heapSpaces, max_allowed_footprint, next_gc_type, last_gc_size,
                 native_need_to_run_finalization,
                 config, native, refs, cards, other, disable_moving_gc_count, process_state, num_bytes_allocated, space_bytes,
                 allocation_rate, zygote_creation_lock, suspend_all_owner, running,
                 aborted, loc>>

\* line 1238.
TcResumeAll(t) ==
  /\ pc[t] = "t_resume" /\ ~aborted
  /\ suspend_all_owner' = NoThread
  /\ Goto(t, "t_grow")
  /\ UNCHANGED <<heapCfg, heapGc, heapSpaces, heapSizes, config, native, refs, cards, other, disable_moving_gc_count,
                 process_state, num_bytes_allocated, space_bytes, allocation_rate,
                 zygote_creation_lock, running, aborted, loc, hist>>

\* lines 1240-1242.
TcGrow(t) ==
  /\ pc[t] = "t_grow" /\ ~aborted
  /\ \E d \in DurationChoices, debug \in BOOLEAN :
       /\ GrowForUtilization("Full", d, debug)
       /\ IF debug /\ GrowDcheckFails("Full", d)
            THEN aborted' = TRUE /\ UNCHANGED pc
            ELSE Goto(t, "t_finish") /\ UNCHANGED aborted
  /\ UNCHANGED <<heapCfg, heapGc, heapSpaces, config, native, refs, cards, other, disable_moving_gc_count,
                 process_state, num_bytes_allocated, space_bytes, allocation_rate,
                 zygote_creation_lock, suspend_all_owner, running, loc, hist>>

\* line 1243.
TcFinish(t) ==
  /\ pc[t] = "t_finish" /\ ~aborted
  /\ FinishGC("Full")
  /\ Goto(t, "done")
  /\ SetLoc(t, DoneLoc(t, "Full"))
  /\ UNCHANGED hist
  /\ UNCHANGED <<heapCfg, heapSpaces, heapSizes, config, native, refs, cards, other, disable_moving_gc_count,
                 process_state, num_bytes_allocated, space_bytes, allocation_rate,
                 zygote_creation_lock, suspend_all_owner, running, aborted>>

\* ---------------------------------------------------------- PreZygoteFork
\* lines 1392-1401: zygote_creation_lock_, the have_zygote_space_ test and the
\* full collection.
\* PzfStart without the have_zygote_space_ test of lines 1396-1398.
MutPzfStart(t) ==
  /\ pc[t] = "idle" /\ ~aborted
  /\ zygote_creation_lock = NoThread
  /\ zygote_creation_lock' = t
  /\ Goto(t, "g_enter")
  /\ SetLoc(t, [NoLoc EXCEPT !.op = "pzf", !.gc_type = "Full", !.ret = "p_after_gc"])
  /\ SetHist(t, Called(NoHist))
  /\ UNCHANGED <<heapCfg, heapGc, heapSpaces, heapSizes, config, native, refs, cards, other, disable_moving_gc_count,
                 process_state, num_bytes_allocated, space_bytes, allocation_rate,
                 suspend_all_owner, running, aborted>>

PzfStart(t) ==
  /\ pc[t] = "idle" /\ ~aborted
  /\ zygote_creation_lock = NoThread
  /\ IF have_zygote_space
       THEN /\ Goto(t, "done")
            /\ SetLoc(t, [NoLoc EXCEPT !.op = "pzf"])
            /\ SetHist(t, NoHist)
            /\ UNCHANGED zygote_creation_lock
       ELSE /\ zygote_creation_lock' = t
            /\ Goto(t, "g_enter")
            /\ SetLoc(t, [NoLoc EXCEPT !.op = "pzf", !.gc_type = "Full",
                                    !.ret = "p_after_gc"])
            /\ SetHist(t, Called(NoHist))
  /\ UNCHANGED <<heapCfg, heapGc, heapSpaces, heapSizes, config, native, refs, cards, other, disable_moving_gc_count,
                 process_state, num_bytes_allocated, space_bytes, allocation_rate,
                 suspend_all_owner, running, aborted>>

\* lines 1402-1418: ChangeCollector(post_zygote_collector_type_) and the entry
\* of the zygote compacting collector's Run().
PzfChangeAndRun(t) ==
  /\ pc[t] = "p_after_gc" /\ ~aborted
  /\ ChangeCollector(post_zygote_collector_type)
  /\ IF kMovingCollector
       THEN running' = running \cup {t} /\ Goto(t, "p_run")
       ELSE UNCHANGED running /\ Goto(t, "p_spaces")
  /\ UNCHANGED <<heapGc, heapSpaces, max_allowed_footprint, next_gc_type, last_gc_size,
                 native_need_to_run_finalization,
                 config, native, refs, cards, other, disable_moving_gc_count, process_state, num_bytes_allocated, space_bytes,
                 allocation_rate, zygote_creation_lock, suspend_all_owner,
                 aborted, loc, hist>>

\* lines 1418-1426: the zygote collector's Run() returns; its marking phase
\* has processed the cards.
PzfRunEnd(t) ==
  /\ pc[t] = "p_run" /\ ~aborted
  /\ running' = running \ {t}
  /\ ProcessCards
  \* the objects of the bump pointer space are now in the non-moving space,
  \* whose end moves past those appended in the to-space (lines 1424-1425)
  /\ space_bytes' = Moved("bump_pointer_space", "malloc_space")
  /\ space_range' =
       [space_range EXCEPT !["malloc_space"].end =
          IF space_bytes["bump_pointer_space"] > 0 THEN @ + 1 ELSE @]
  /\ Goto(t, "p_spaces")
  /\ UNCHANGED <<heapCfg, heapGc, have_zygote_space, main_space, allocator_mem_map,
                 continuous_spaces, space_vector, alloc_spaces, heapSizes, config,
                 native, refs, other, disable_moving_gc_count,
                 process_state, num_bytes_allocated, allocation_rate,
                 zygote_creation_lock, suspend_all_owner, aborted, loc, hist>>

\* lines 1427-1470: the zygote space, the new main space and the new
\* non-moving space.  post_zygote_non_moving_space_mem_map_ exists only in a
\* runtime constructed as the zygote (lines 229-237); without it line 1465
\* dereferences a null pointer.
PzfSpaces(t) ==
  /\ pc[t] = "p_spaces" /\ ~aborted
  /\ IF is_zygote
       THEN /\ main_space' = TRUE
            /\ have_zygote_space' = TRUE
            /\ continuous_spaces' =
                 continuous_spaces \cup {"main_space", "non_moving_space"}
            \* CreateZygoteSpace: the zygote space ends where it is full, the
            \* new main space takes the rest of its mapping
            \* AddSpace(main_space_) at line 1439, AddSpace(new_non_moving_space)
            \* at line 1466
            /\ LET rng == [space_range EXCEPT
                             !["malloc_space"].limit = space_range["malloc_space"].end,
                             !["main_space"] =
                                [begin |-> space_range["malloc_space"].end,
                                 end |-> space_range["malloc_space"].limit,
                                 limit |-> space_range["malloc_space"].limit]]
               IN /\ space_range' = rng
                  /\ space_vector' =
                       AddSpace(AddSpace(space_vector, rng, "main_space"),
                                rng, "non_moving_space")
            \* lines 1441-1450: the zygote space leaves alloc_spaces_
            /\ alloc_spaces' =
                 ((alloc_spaces \cup {"main_space"}) \ {"malloc_space"})
                   \cup {"non_moving_space"}
            /\ zygote_creation_lock' = NoThread
            /\ Goto(t, "done")
            /\ SetLoc(t, DoneLoc(t, "Full"))
            /\ UNCHANGED <<allocator_mem_map, aborted>>
       ELSE /\ aborted' = TRUE
            /\ UNCHANGED <<heapSpaces, zygote_creation_lock, pc, loc>>
  /\ UNCHANGED <<heapCfg, heapGc, heapSizes, config, native, refs, cards, other, disable_moving_gc_count,
                 process_state, num_bytes_allocated, space_bytes, allocation_rate,
                 suspend_all_owner, running, hist>>

\* ------------------------------------------- native allocation accounting
\* Sizes passed to RegisterNativeAllocation and RegisterNativeFree: 384 KiB
\* (between the initial watermarks) and 1 GiB.
NativeSizes == {384 * KB, 1048576 * KB}

\* Value of a 32-bit int after an addition or subtraction that wraps.
WrapInt(x) ==
  IF x >= kIntWrap THEN x - kSizeWrap ELSE IF x < -kIntWrap THEN x + kSizeWrap ELSE x
\* static_cast<size_t>(int)
SizeOf(n) == IF n < 0 THEN n + kSizeWrap ELSE n
\* Conversion of a double to size_t: undefined when the value does not fit.
TruncChoices(x) == IF x < kSizeWrap THEN {x} ELSE {0, kSizeWrap - 1}
\* new_size = expected_size - bytes (line 2436): signed overflow is undefined,
\* the result is the wrapped value or is treated as the negative number it
\* stands for.
FreeNewSizes(expected_size, bytes) ==
  IF expected_size - bytes >= -kIntWrap
    THEN {expected_size - bytes}
    ELSE {WrapInt(expected_size - bytes), expected_size - bytes}

\* Heap::UpdateMaxNativeFootprint, lines 2148-2159.
UpdateMaxNativeFootprint ==
  LET native_size == SizeOf(native_bytes_allocated)
  IN \E quotient \in TruncChoices((native_size * sizes.util_den) \div sizes.util_num) :
       LET above == (native_size + sizes.max_free) % kSizeWrap
           below == (native_size + sizes.min_free) % kSizeWrap
           target_size == IF quotient > above THEN above
                          ELSE IF quotient < below THEN below ELSE quotient
       IN /\ native_footprint_gc_watermark' = target_size
          /\ native_footprint_limit' = (2 * target_size - native_size) % kSizeWrap

\* Frame of a step of the native accounting: the heap outside the native
\* counters, concurrent_start_bytes_ and gc_complete_cond_.
NativeFrame ==
  UNCHANGED <<heapCfg, is_gc_running, last_gc_type, heapSpaces, max_allowed_footprint,
              next_gc_type, last_gc_size, config, refs, cards, other,
              disable_moving_gc_count,
              process_state, num_bytes_allocated, space_bytes, allocation_rate,
              zygote_creation_lock, suspend_all_owner, running, aborted>>
NativeUnchanged ==
  UNCHANGED <<native_bytes_allocated, native_footprint_gc_watermark,
              native_footprint_limit, native_registered>>
\* The call has done `e` (see `ev` of NoHist).
Did(t, e) == [hist[t] EXCEPT !.ev = Append(@, e)]

\* Heap::RegisterNativeAllocation, lines 2391-2393.
RegisterNativeAllocation(t) ==
  /\ pc[t] = "idle" /\ ~aborted
  /\ native_calls < MaxNativeCalls
  /\ native_calls' = native_calls + 1
  /\ \E bytes \in NativeSizes :
       SetLoc(t, [NoLoc EXCEPT !.op = "native_alloc", !.bytes = bytes])
  /\ SetHist(t, NoHist)
  /\ Goto(t, IF native_need_to_run_finalization THEN "n_fin_first" ELSE "n_add")
  /\ NativeUnchanged /\ NativeFrame
  /\ UNCHANGED <<concurrent_start_bytes, native_need_to_run_finalization,
                 gc_complete_cond>>

\* line 2394: RunFinalization(env).
RnaRunFinalizationFirst(t) ==
  /\ pc[t] = "n_fin_first" /\ ~aborted
  /\ SetHist(t, Did(t, "fin"))
  /\ Goto(t, "n_update_first")
  /\ UNCHANGED loc
  /\ LocalStep

\* lines 2395-2396.
RnaUpdateFirst(t) ==
  /\ pc[t] = "n_update_first" /\ ~aborted
  /\ UpdateMaxNativeFootprint
  /\ native_need_to_run_finalization' = FALSE
  /\ Goto(t, "n_add")
  /\ NativeFrame
  /\ UNCHANGED <<native_bytes_allocated, native_registered, native_calls,
                 concurrent_start_bytes, gc_complete_cond, loc, hist>>

\* line 2399: native_bytes_allocated_.FetchAndAdd(bytes).
RnaAdd(t) ==
  /\ pc[t] = "n_add" /\ ~aborted
  /\ native_bytes_allocated' = WrapInt(native_bytes_allocated + loc[t].bytes)
  /\ native_registered' = native_registered + loc[t].bytes
  /\ SetHist(t, [hist[t] EXCEPT !.raised =
                   SizeOf(native_bytes_allocated') > native_footprint_limit])
  /\ Goto(t, "n_check")
  /\ NativeFrame
  /\ UNCHANGED <<native_footprint_gc_watermark, native_footprint_limit, native_calls,
                 concurrent_start_bytes, native_need_to_run_finalization,
                 gc_complete_cond, loc>>

\* lines 2400-2402: the test of the GC watermark.
RnaCheckWatermark(t) ==
  /\ pc[t] = "n_check" /\ ~aborted
  /\ IF SizeOf(native_bytes_allocated) > native_footprint_gc_watermark
       THEN /\ Goto(t, "n_check_limit")
            /\ SetLoc(t, [loc[t] EXCEPT !.gc_type = IF have_zygote_space
                                                      THEN "Partial" ELSE "Full"])
       ELSE Goto(t, "done") /\ SetLoc(t, DoneLoc(t, "registered"))
  /\ UNCHANGED hist
  /\ LocalStep

\* Heap::IsGCRequestPending, lines 2375-2377.
IsGCRequestPending == concurrent_start_bytes # kSizeMax

\* line 2406 and, below the limit, lines 2422-2428.
RnaCheckLimit(t) ==
  /\ pc[t] = "n_check_limit" /\ ~aborted
  /\ IF SizeOf(native_bytes_allocated) > native_footprint_limit
       THEN /\ Goto(t, "n_wait")
            /\ UNCHANGED <<loc, hist, concurrent_start_bytes>>
       ELSE IF IsGCRequestPending
         THEN /\ Goto(t, "done") /\ SetLoc(t, DoneLoc(t, "registered"))
              /\ UNCHANGED <<hist, concurrent_start_bytes>>
         ELSE IF concurrent_gc
           \* Heap::RequestConcurrentGC, lines 2277-2293
           THEN /\ concurrent_start_bytes' = kSizeMax
                /\ SetHist(t, Did(t, "request"))
                /\ Goto(t, "done") /\ SetLoc(t, DoneLoc(t, "registered"))
           ELSE /\ Goto(t, "g_enter")
                /\ SetLoc(t, [loc[t] EXCEPT !.soft = FALSE, !.ret = "done",
                                             !.result = "None"])
                /\ SetHist(t, Called(Did(t, "gc_for_alloc")))
                /\ UNCHANGED concurrent_start_bytes
  /\ NativeFrame /\ NativeUnchanged
  /\ UNCHANGED <<native_calls, native_need_to_run_finalization, gc_complete_cond>>

\* line 2407: WaitForGcToComplete, first test of is_gc_running_.
RnaWait(t) ==
  /\ pc[t] = "n_wait" /\ ~aborted
  /\ IF is_gc_running
       THEN Goto(t, "n_waiting") /\ CondWait(t)
       ELSE Goto(t, "n_check_again") /\ UNCHANGED gc_complete_cond
  /\ UNCHANGED <<loc, hist>>
  /\ WaitFrame

\* The waiter, woken by a Broadcast, reads last_gc_type_ and tests
\* is_gc_running_ again.
RnaWaited(t) ==
  /\ pc[t] = "n_waiting" /\ ~aborted
  /\ Awake(t)
  /\ IF is_gc_running
       THEN CondWait(t) /\ UNCHANGED pc
       ELSE /\ Goto(t, IF last_gc_type # "None" THEN "n_fin_waited" ELSE "n_check_again")
            /\ UNCHANGED gc_complete_cond
  /\ UNCHANGED <<loc, hist>>
  /\ WaitFrame

\* line 2409: a GC has just finished, RunFinalization(env).
RnaRunFinalizationWaited(t) ==
  /\ pc[t] = "n_fin_waited" /\ ~aborted
  /\ SetHist(t, Did(t, "fin"))
  /\ Goto(t, "n_check_again")
  /\ UNCHANGED loc
  /\ LocalStep

\* lines 2413-2414: still over the limit, CollectGarbageInternal(gc_type,
\* kGcCauseForNativeAlloc, false).
RnaCheckAgain(t) ==
  /\ pc[t] = "n_check_again" /\ ~aborted
  /\ IF SizeOf(native_bytes_allocated) > native_footprint_limit
       THEN /\ Goto(t, "g_enter")
            /\ SetLoc(t, [loc[t] EXCEPT !.soft = FALSE, !.ret = "n_after_gc",
                                         !.result = "None"])
            /\ SetHist(t, Called([Did(t, "gc") EXCEPT !.over = TRUE]))
       ELSE Goto(t, "n_update") /\ UNCHANGED <<loc, hist>>
  /\ LocalStep

\* RnaAfterGc without the RunFinalization call.
MutRnaAfterGc(t) ==
  /\ pc[t] = "n_after_gc" /\ ~aborted
  /\ native_need_to_run_finalization' = FALSE
  /\ Goto(t, "n_update")
  /\ NativeFrame /\ NativeUnchanged
  /\ UNCHANGED <<native_calls, concurrent_start_bytes, gc_complete_cond, loc, hist>>

\* lines 2415-2416: RunFinalization(env) after the collection.
RnaAfterGc(t) ==
  /\ pc[t] = "n_after_gc" /\ ~aborted
  /\ SetHist(t, Did(t, "fin"))
  /\ native_need_to_run_finalization' = FALSE
  /\ Goto(t, "n_update")
  /\ NativeFrame /\ NativeUnchanged
  /\ UNCHANGED <<native_calls, concurrent_start_bytes, gc_complete_cond, loc>>

\* line 2420.
RnaUpdate(t) ==
  /\ pc[t] = "n_update" /\ ~aborted
  /\ UpdateMaxNativeFootprint
  /\ Goto(t, "done") /\ SetLoc(t, DoneLoc(t, "registered"))
  /\ NativeFrame
  /\ UNCHANGED <<native_bytes_allocated, native_registered, native_calls,
                 concurrent_start_bytes, native_need_to_run_finalization,
                 gc_complete_cond, hist>>

\* Heap::RegisterNativeFree, lines 2432-2433.
RegisterNativeFree(t) ==
  /\ pc[t] = "idle" /\ ~aborted
  /\ native_calls < MaxNativeCalls
  /\ native_calls' = native_calls + 1
  /\ \E bytes \in NativeSizes :
       SetLoc(t, [NoLoc EXCEPT !.op = "native_free", !.bytes = bytes])
  /\ SetHist(t, NoHist)
  /\ Goto(t, "n_load")
  /\ NativeUnchanged /\ NativeFrame
  /\ UNCHANGED <<concurrent_start_bytes, native_need_to_run_finalization,
                 gc_complete_cond>>

\* lines 2435-2443: the load, the subtraction and the test of new_size.
RnfLoad(t) ==
  /\ pc[t] = "n_load" /\ ~aborted
  /\ \E new_size \in FreeNewSizes(native_bytes_allocated, loc[t].bytes) :
       IF new_size < 0
         THEN Goto(t, "done") /\ SetLoc(t, DoneLoc(t, "RuntimeException"))
         ELSE /\ Goto(t, "n_cas")
              /\ SetLoc(t, [loc[t] EXCEPT !.expected_size = native_bytes_allocated,
                                           !.new_size = new_size])
  /\ UNCHANGED hist
  /\ LocalStep

\* line 2444: CompareAndSwap(expected_size, new_size).
RnfCas(t) ==
  /\ pc[t] = "n_cas" /\ ~aborted
  /\ IF native_bytes_allocated = loc[t].expected_size
       THEN /\ native_bytes_allocated' = loc[t].new_size
            /\ native_registered' = native_registered - loc[t].bytes
            /\ Goto(t, "done") /\ SetLoc(t, DoneLoc(t, "freed"))
       ELSE /\ Goto(t, "n_load")
            /\ UNCHANGED <<native_bytes_allocated, native_registered, loc>>
  /\ NativeFrame
  /\ UNCHANGED <<native_footprint_gc_watermark, native_footprint_limit, native_calls,
                 concurrent_start_bytes, native_need_to_run_finalization,
                 gc_complete_cond, hist>>


\* --------------------------------------------------- reference processing
QueueKinds == {"soft", "weak", "finalizer", "phantom"}
Elems(q) == {q[i] : i \in 1..Len(q)}

\* Heap::IsEnqueued, lines 651-655: pendingNext is set, on whichever list.
IsEnqueued(ref) ==
  \E k \in QueueKinds \cup {"cleared"} : ref \in Elems(reference_queues[k])

\* The pendingNext field of a reference: the lists are cyclic (lines 652-653),
\* so the last reference of a list points to the first and a reference on no
\* list has none.
PendingNext(ref) ==
  IF IsEnqueued(ref)
    THEN LET k == CHOOSE k \in QueueKinds \cup {"cleared"} :
                    ref \in Elems(reference_queues[k])
             q == reference_queues[k]
             i == CHOOSE i \in 1..Len(q) : q[i] = ref
         IN IF i < Len(q) THEN q[i + 1] ELSE q[1]
    ELSE "null"

\* DelayReferenceReferent that never queues the reference.
MutDelayReferenceReferent(obj) == reference_queues

\* Heap::DelayReferenceReferent, lines 666-700, for a collector that does not
\* move objects: a reference whose referent is not marked goes on the queue
\* of its class unless it is enqueued already.
DelayReferenceReferent(obj) ==
  IF referent[obj] # "null" /\ referent[obj] \notin mark_bits /\ ~IsEnqueued(obj)
    THEN [reference_queues EXCEPT ![KindOf[obj]] = Append(@, obj)]
    ELSE reference_queues

\* ReferenceQueue::ClearWhiteReferences on the queue of class k, applied to
\* the pair st = [q |-> queues, r |-> referents]: every reference of the
\* queue whose referent is not marked is cleared and goes on the cleared
\* list; the queue is left empty.
ClearWhiteReferences(st, k) ==
  LET IsWhite(ref) == st.r[ref] # "null" /\ st.r[ref] \notin mark_bits
      white == SelectSeq(st.q[k], IsWhite)
  IN [q |-> [st.q EXCEPT ![k] = <<>>, !.cleared = @ \o white],
      r |-> [ref \in RefObjects |->
               IF ref \in Elems(white) THEN "null" ELSE st.r[ref]]]

\* Frame of a step of the collector's marking and reference processing.
RefFrame ==
  UNCHANGED <<heapCfg, heapGc, heapSpaces, heapSizes, config, native, cards, other,
              disable_moving_gc_count, process_state, num_bytes_allocated, space_bytes,
              allocation_rate, zygote_creation_lock, suspend_all_owner, running>>

\* A collector's marking phase starts for a collection with clear_soft:
\* the mark bits are clear and the roots are pushed on the mark stack.
MarkRoots(t) ==
  /\ pc[t] = "idle" /\ ~aborted
  /\ \E clear_soft \in BOOLEAN :
       SetLoc(t, [NoLoc EXCEPT !.op = "references", !.soft = clear_soft])
  /\ Goto(t, "r_mark")
  /\ objects' = [objects EXCEPT !.at_start = referent]
  /\ mark_bits' = {}
  /\ mark_stack' = objects.roots
  /\ SetHist(t, NoHist)
  /\ UNCHANGED <<referent, reference_queues, aborted>>
  /\ RefFrame

ScanPcs == {"r_mark", "r_preserve_scan", "r_finalizer_scan"}

\* One step of the gray-stack walk: pop an object; if its mark bit was not
\* set, set it and push what it refers to; for a reference object that is
\* its zombie field, the referent going through DelayReferenceReferent.
MarkStackStep(t) ==
  /\ pc[t] \in ScanPcs /\ ~aborted
  /\ \E o \in mark_stack :
       /\ mark_bits' = mark_bits \cup {o}
       /\ mark_stack' = (mark_stack \ {o}) \cup
                        (IF o \in mark_bits THEN {}
                         ELSE IF o \in PlainObjects THEN objects.fields[o]
                         ELSE {objects.zombie[o]} \ {"null"})
       /\ reference_queues' = IF o \notin mark_bits /\ o \in RefObjects
                                THEN DelayReferenceReferent(o)
                                ELSE reference_queues
  /\ UNCHANGED <<objects, referent, aborted, pc, loc>>
  /\ UNCHANGED hist
  /\ RefFrame

\* The mark stack is empty: marking from the roots is over and
\* ProcessReferences is called, or a recursive_mark_object_callback returns.
MarkStackEmpty(t) ==
  /\ pc[t] \in ScanPcs /\ ~aborted
  /\ mark_stack = {}
  /\ Goto(t, CASE pc[t] = "r_mark" -> "r_preserve"
               [] pc[t] = "r_preserve_scan" -> "r_preserve"
               [] pc[t] = "r_finalizer_scan" -> "r_finalizer")
  /\ UNCHANGED <<refs, aborted, loc>>
  /\ UNCHANGED hist
  /\ RefFrame

\* PrPreserve with the test of clear_soft inverted.
MutPrPreserve(t) ==
  /\ pc[t] = "r_preserve" /\ ~aborted
  /\ LET q == reference_queues.soft
     IN IF ~loc[t].soft \/ is_zygote \/ q = <<>>
          THEN /\ Goto(t, "r_clear")
               /\ SetLoc(t, [loc[t] EXCEPT !.reached = mark_bits])
               /\ UNCHANGED <<reference_queues, mark_stack>>
          ELSE /\ reference_queues' = [reference_queues EXCEPT !.soft = Tail(q)]
               /\ IF referent[Head(q)] # "null"
                    THEN Goto(t, "r_preserve_scan")
                         /\ mark_stack' = {referent[Head(q)]}
                    ELSE UNCHANGED <<pc, mark_stack>>
               /\ UNCHANGED loc
  /\ UNCHANGED <<objects, referent, mark_bits, aborted>>
  /\ UNCHANGED hist
  /\ RefFrame

\* Heap::ProcessReferences, lines 619-626, with
\* ReferenceQueue::PreserveSomeSoftReferences: each reference of the soft
\* queue is taken off it and PreserveSoftReferenceCallback (lines 607-611)
\* marks its referent recursively.
PrPreserve(t) ==
  /\ pc[t] = "r_preserve" /\ ~aborted
  /\ LET q == reference_queues.soft
     IN IF loc[t].soft \/ is_zygote \/ q = <<>>
          \* the objects marked so far are those reached before any
          \* finalizer referent is marked
          THEN /\ Goto(t, "r_clear")
               /\ SetLoc(t, [loc[t] EXCEPT !.reached = mark_bits])
               /\ UNCHANGED <<reference_queues, mark_stack>>
          ELSE /\ reference_queues' = [reference_queues EXCEPT !.soft = Tail(q)]
               /\ IF referent[Head(q)] # "null"
                    THEN Goto(t, "r_preserve_scan")
                         /\ mark_stack' = {referent[Head(q)]}
                    ELSE UNCHANGED <<pc, mark_stack>>
               /\ UNCHANGED loc
  /\ UNCHANGED <<objects, referent, mark_bits, aborted>>
  /\ UNCHANGED hist
  /\ RefFrame

\* PrClearWhite clearing the phantom references as well.
MutPrClearWhite(t) ==
  /\ pc[t] = "r_clear" /\ ~aborted
  /\ LET st == ClearWhiteReferences(
                 ClearWhiteReferences(
                   ClearWhiteReferences([q |-> reference_queues, r |-> referent],
                                        "soft"), "weak"), "phantom")
     IN reference_queues' = st.q /\ referent' = st.r
  /\ SetHist(t, [hist[t] EXCEPT !.ev = @ \o <<"soft", "weak", "phantom">>])
  /\ Goto(t, "r_finalizer")
  /\ UNCHANGED <<objects, mark_bits, mark_stack, aborted, loc>>
  /\ RefFrame

\* lines 629-630: soft, then weak references with white referents.
PrClearWhite(t) ==
  /\ pc[t] = "r_clear" /\ ~aborted
  /\ LET st == ClearWhiteReferences(
                 ClearWhiteReferences([q |-> reference_queues, r |-> referent],
                                      "soft"), "weak")
     IN reference_queues' = st.q /\ referent' = st.r
  /\ SetHist(t, [hist[t] EXCEPT !.ev = @ \o <<"soft", "weak">>])
  /\ Goto(t, "r_finalizer")
  /\ UNCHANGED <<objects, mark_bits, mark_stack, aborted, loc>>
  /\ RefFrame

\* line 634, ReferenceQueue::EnqueueFinalizerReferences: each reference of
\* the finalizer queue is taken off it; if its referent is not marked the
\* referent is marked recursively and moved out of the referent field, and
\* the reference goes on the cleared list.
PrEnqueueFinalizer(t) ==
  /\ pc[t] = "r_finalizer" /\ ~aborted
  /\ LET q == reference_queues.finalizer
     IN IF q = <<>>
          THEN /\ Goto(t, "r_clear_again")
               /\ UNCHANGED <<reference_queues, referent, objects, mark_stack, hist>>
          ELSE IF referent[Head(q)] # "null" /\ referent[Head(q)] \notin mark_bits
            THEN /\ reference_queues' =
                      [reference_queues EXCEPT !.finalizer = Tail(q),
                                               !.cleared = Append(@, Head(q))]
                 /\ objects' = [objects EXCEPT !.zombie[Head(q)] = referent[Head(q)]]
                 /\ referent' = [referent EXCEPT ![Head(q)] = "null"]
                 /\ mark_stack' = {referent[Head(q)]}
                 /\ SetHist(t, Did(t, "finalizer"))
                 /\ Goto(t, "r_finalizer_scan")
            ELSE /\ reference_queues' = [reference_queues EXCEPT !.finalizer = Tail(q)]
                 /\ UNCHANGED <<referent, objects, mark_stack, pc, hist>>
  /\ UNCHANGED <<mark_bits, aborted, loc>>
  /\ RefFrame

\* PrClearWhiteAgain without the second pass over the soft queue.
MutPrClearWhiteAgain(t, debug) ==
  /\ pc[t] = "r_clear_again" /\ ~aborted
  /\ LET st == ClearWhiteReferences(
                 ClearWhiteReferences([q |-> reference_queues, r |-> referent],
                                      "weak"), "phantom")
     IN /\ reference_queues' = st.q /\ referent' = st.r
        /\ aborted' = (debug /\ \E k \in QueueKinds : st.q[k] # <<>>)
  /\ SetHist(t, [hist[t] EXCEPT !.ev = @ \o <<"weak", "phantom">>])
  /\ Goto(t, "r_end")
  /\ UNCHANGED <<objects, mark_bits, mark_stack, loc>>
  /\ RefFrame

\* lines 639-647: the f-reachable soft and weak references, then the phantom
\* references, with white referents; the DCHECKs of a debug build.
PrClearWhiteAgain(t, debug) ==
  /\ pc[t] = "r_clear_again" /\ ~aborted
  /\ LET st == ClearWhiteReferences(
                 ClearWhiteReferences(
                   ClearWhiteReferences([q |-> reference_queues, r |-> referent],
                                        "soft"), "weak"), "phantom")
     IN /\ reference_queues' = st.q /\ referent' = st.r
        /\ aborted' = (debug /\ \E k \in QueueKinds : st.q[k] # <<>>)
  /\ SetHist(t, [hist[t] EXCEPT !.ev = @ \o <<"soft", "weak", "phantom">>])
  /\ Goto(t, "r_end")
  /\ UNCHANGED <<objects, mark_bits, mark_stack, loc>>
  /\ RefFrame

\* PrEnqueueCleared without cleared_references_.Clear().
MutPrEnqueueCleared(t) ==
  /\ pc[t] = "r_end" /\ ~aborted
  /\ Goto(t, "done") /\ SetLoc(t, DoneLoc(t, "processed"))
  /\ UNCHANGED <<refs, aborted>>
  /\ UNCHANGED hist
  /\ RefFrame

\* ProcessReferences has returned; Heap::EnqueueClearedReferences, lines
\* 2262-2275, hands the cleared list over and empties it.
PrEnqueueCleared(t) ==
  /\ pc[t] = "r_end" /\ ~aborted
  /\ reference_queues' = [reference_queues EXCEPT !.cleared = <<>>]
  /\ Goto(t, "done") /\ SetLoc(t, DoneLoc(t, "processed"))
  /\ UNCHANGED <<objects, referent, mark_bits, mark_stack, aborted>>
  /\ UNCHANGED hist
  /\ RefFrame


\* ------------------------------------------------------------------ Next
\* Calls a mutator thread makes on the heap.
MutatorCall(t) ==
  /\ t \in Mutators
  /\ \/ AllocStart(t)
     \/ IncrementDisableMovingGC(t)
     \/ DecrementDisableMovingGC(t)
     \/ CollectGarbage(t)

\* Calls made by the runtime's own threads (heap daemon, process-state
\* updates, the zygote's fork preparation).
RuntimeCall(t) ==
  /\ t \in RuntimeThreads
  /\ \/ ConcStart(t)
     \/ TransitionCollector(t)
     \/ UpdateProcessState(t)
     \/ PzfStart(t)
     \/ CollectGarbage(t)

\* The next step of a call in progress.
Continue(t) ==
  \/ AllocWait(t) \/ AllocWaited(t) \/ AllocCheck1(t) \/ AllocTry1(t)
  \/ AllocLoopInit(t) \/ AllocLoop(t) \/ AllocAfterGc(t) \/ AllocTryLoop(t)
  \/ AllocGrow(t) \/ AllocSoft(t) \/ AllocAfterSoft(t) \/ AllocTrySoft(t)
  \/ AllocThrow(t)
  \/ CgiEnter(t) \/ CgiStartGC(t) \/ CgiSelect(t) \/ CgiRunEnd(t) \/ CgiGrow(t)
  \/ CgiFinish(t)
  \/ ConcWait(t) \/ ConcWaited(t) \/ ConcCall(t) \/ ConcAfterFirst(t)
  \/ ConcLoop(t) \/ ConcAfterLoop(t)
  \/ TcStartGC(t) \/ TcSleep(t) \/ TcSuspendAll(t) \/ TcBody(t) \/ TcCompactEnd(t)
  \/ TcChangeCollector(t) \/ TcResumeAll(t) \/ TcGrow(t) \/ TcFinish(t)
  \/ PzfChangeAndRun(t) \/ PzfRunEnd(t) \/ PzfSpaces(t)
  \/ Return(t)

Step(t) == MutatorCall(t) \/ RuntimeCall(t) \/ Continue(t)

Next == \E t \in Threads : Step(t)

Spec == Init /\ [][Next]_vars

\* ------------------------------------------------- fair specification
\* Steps of a call in progress in a zygote-born process whose runtime thread
\* does not request concurrent collections.
FairContinue(t) ==
  \/ AllocWait(t) \/ AllocWaited(t) \/ AllocCheck1(t) \/ AllocTry1(t)
  \/ AllocLoopInit(t) \/ AllocLoop(t) \/ AllocAfterGc(t) \/ AllocTryLoop(t)
  \/ AllocGrow(t) \/ AllocSoft(t) \/ AllocAfterSoft(t) \/ AllocTrySoft(t)
  \/ AllocThrow(t)
  \/ CgiEnter(t) \/ CgiStartGC(t) \/ CgiSelect(t) \/ CgiRunEnd(t) \/ CgiGrow(t)
  \/ CgiFinish(t)
  \/ TcStartGC(t) \/ TcSleep(t) \/ TcSuspendAll(t) \/ TcBody(t) \/ TcCompactEnd(t)
  \/ TcChangeCollector(t) \/ TcResumeAll(t) \/ TcGrow(t) \/ TcFinish(t)
  \/ PzfChangeAndRun(t) \/ PzfRunEnd(t) \/ PzfSpaces(t)
  \/ Return(t)

\* Calls made under the fair specification: the mutator allocates and pins /
\* unpins (every decrement follows an increment); the runtime thread forks
\* from the zygote and reports process-state changes.
FairCall(t) ==
  \/ t \in Mutators /\ AllocStart(t)
  \/ t \in Mutators /\ IncrementDisableMovingGC(t)
  \/ t \in Mutators /\ disable_moving_gc_count > 0 /\ DecrementDisableMovingGC(t)
  \/ t \in RuntimeThreads /\ PzfStart(t)
  \/ t \in RuntimeThreads /\ UpdateProcessState(t)

FairInit ==
  /\ Init
  /\ post_zygote_collector_type = "CMS" /\ background_collector_type = "SS"

FairNext == \E t \in Threads : FairCall(t) \/ FairContinue(t)

\* A woken waiter finds no GC running and leaves WaitForGcToCompleteLocked.
LeaveWait(t) ==
  /\ ~is_gc_running
  /\ AllocWaited(t) \/ CgiStartGC(t) \/ TcStartGC(t)

\* A thread goes back to the Runnable state (ScopedThreadStateChange
\* destructors), which it can only do while no SuspendAll is in force.
Resume(t) ==
  AllocCheck1(t) \/ AllocLoopInit(t) \/ AllocAfterGc(t) \/ AllocAfterSoft(t)

\* Fair scheduling: a thread that can take a step eventually takes one, and a
\* thread that is again and again able to take gc_complete_lock_ with no GC
\* running, or to become Runnable, eventually does.
FairSpec ==
  /\ FairInit /\ [][FairNext]_vars
  /\ \A t \in Threads : WF_vars(FairContinue(t)) /\ SF_vars(LeaveWait(t) \/ Resume(t))

\* ------------------------------------------------ sizing specification
\* Constructor sizing arguments explored for the growth policy: min_free below
\* and above max_free, two utilizations.
SizesChoices ==
  {[min_free |-> mf, max_free |-> 256 * KB, util_num |-> u[1], util_den |-> u[2],
    growth_limit |-> growth_limit] :
     mf \in {64 * KB, 512 * KB}, u \in {<<1, 2>>, <<3, 4>>}}
InitialSizeChoices == {64 * KB, 256 * KB, 1024 * KB}
\* Bytes allocated when the first collection is requested.
BytesChoices == {0, 96 * KB, 384 * KB, 768 * KB}

GrowInit ==
  \E sz \in SizesChoices, isize \in InitialSizeChoices, b \in BytesChoices :
    b <= isize /\ HeapInit(sz, isize, b)

\* One thread of the runtime requests explicit and concurrent collections and
\* prepares the zygote's fork.
GrowNext ==
  \E t \in RuntimeThreads :
    \/ CollectGarbage(t) \/ ConcStart(t) \/ ConcWait(t) \/ ConcCall(t)
    \/ ConcAfterFirst(t)
    \/ CgiEnter(t) \/ CgiStartGC(t) \/ CgiSelect(t) \/ CgiRunEnd(t) \/ CgiGrow(t)
    \/ CgiFinish(t)
    \/ PzfStart(t) \/ PzfChangeAndRun(t) \/ PzfRunEnd(t) \/ PzfSpaces(t)
    \/ Return(t)

GrowSpec == GrowInit /\ [][GrowNext]_vars

\* -------------------------------------- native accounting specification
NativeContinue(t) ==
  \/ RnaRunFinalizationFirst(t) \/ RnaUpdateFirst(t) \/ RnaAdd(t)
  \/ RnaCheckWatermark(t) \/ RnaCheckLimit(t) \/ RnaWait(t) \/ RnaWaited(t)
  \/ RnaRunFinalizationWaited(t) \/ RnaCheckAgain(t) \/ RnaAfterGc(t) \/ RnaUpdate(t)
  \/ RnfLoad(t) \/ RnfCas(t)
  \/ CgiEnter(t) \/ CgiStartGC(t) \/ CgiSelect(t) \/ CgiRunEnd(t) \/ CgiGrow(t)
  \/ CgiFinish(t)
  \/ Return(t)

\* Every thread registers native allocations and frees.
NativeCall(t) ==
  \/ RegisterNativeAllocation(t)
  \/ RegisterNativeFree(t)

\* A process that is not the zygote.
NativeInit == Init /\ ~is_zygote

NativeNext == \E t \in Threads : NativeCall(t) \/ NativeContinue(t)

NativeSpec == NativeInit /\ [][NativeNext]_vars

\* ------------------------------------ reference processing specification
\* Object graphs explored. The reference objects w1, f1 and p1 are roots, s1
\* is a root or is reached from b, a may be a root; s1 refers to a, w1 to a
\* or b, f1 to b, p1 to b or c, s2 to c; a may hold s2, b may hold s1, s2 or c.
GraphChoices ==
  {[roots |-> {"w1", "f1", "p1"} \cup rs,
    fields |-> [o \in PlainObjects |->
                  IF o = "a" THEN fa ELSE IF o = "b" THEN fb ELSE {}],
    at_start |-> [r \in RefObjects |->
                    CASE r = "s1" -> "a" [] r = "s2" -> "c" [] r = "w1" -> w
                      [] r = "f1" -> "b" [] r = "p1" -> p],
    zombie |-> [r \in RefObjects |-> "null"]] :
     rs \in {{"s1"}, {"s1", "a"}, {}},
     fa \in {{}, {"s2"}},
     fb \in {{}, {"s1"}, {"s2"}, {"c"}},
     w \in {"a", "b"},
     p \in {"b", "c"}}

RefInit ==
  /\ HeapFields(DefaultSizes, initial_size, 0)
  /\ \E g \in GraphChoices : objects = g /\ referent = g.at_start
  /\ mark_bits = {}
  /\ mark_stack = {}
  /\ reference_queues = NoQueued
  /\ NoCards
  /\ NoCheckpoints
  /\ NoBins
  /\ NoMarkSweep

\* The collector's thread marks and processes references, cycle after cycle.
RefNext ==
  \E t \in RuntimeThreads :
    \/ MarkRoots(t) \/ MarkStackStep(t) \/ MarkStackEmpty(t)
    \/ PrPreserve(t) \/ PrClearWhite(t) \/ PrEnqueueFinalizer(t)
    \/ \E debug \in BOOLEAN : PrClearWhiteAgain(t, debug)
    \/ PrEnqueueCleared(t)
    \/ Return(t)

RefSpec == RefInit /\ [][RefNext]_vars

\* ---------------------------------------------------- thread checkpoints
\* Closures handed to RequestCheckpoint are numbered from 1; 0 is nullptr.
MaxCheckpointRequests == 4

\* Frame of a step of the checkpoint protocol: the heap.
CheckpointFrame ==
  UNCHANGED <<heapCfg, heapGc, heapSpaces, heapSizes, config, native, refs, cards, zygoteBins,
              markSweep, suspension,
              disable_moving_gc_count, process_state, num_bytes_allocated, space_bytes,
              allocation_rate, zygote_creation_lock, suspend_all_owner, running>>

\* The caller of Thread::RequestCheckpoint takes thread_suspend_count_lock_
\* and hands over one more closure.
RequestCheckpoint(t) ==
  /\ pc[t] = "idle" /\ ~aborted
  /\ thread_suspend_count_lock = NoThread
  /\ closures.requested < MaxCheckpointRequests
  /\ thread_suspend_count_lock' = t
  /\ closures' = [closures EXCEPT !.requested = @ + 1]
  /\ Goto(t, "rc_read")
  /\ SetLoc(t, [NoLoc EXCEPT !.op = "request", !.function = closures.requested + 1])
  /\ UNCHANGED <<state_and_flags, checkpoint_functions, aborted, hist>>
  /\ CheckpointFrame

\* lines 603-607: the state and flags word is read; a target that is not
\* Runnable cannot run a checkpoint.
RcRead(t) ==
  /\ pc[t] = "rc_read" /\ ~aborted
  /\ IF state_and_flags.state # "Runnable"
       THEN /\ Goto(t, "rc_unlock")
            /\ SetLoc(t, [loc[t] EXCEPT !.outcome = "false"])
       ELSE /\ Goto(t, "rc_install")
            /\ SetLoc(t, [loc[t] EXCEPT !.old_state_and_flags = state_and_flags])
  /\ UNCHANGED <<other, aborted, hist>>
  /\ CheckpointFrame

\* Slots of checkpoint_functions_ that hold nullptr.
FreeSlots == {i \in 1..kMaxCheckpoints : checkpoint_functions[i] = 0}

\* lines 609-620: the closure goes into the first free slot, if there is one.
RcInstall(t) ==
  /\ pc[t] = "rc_install" /\ ~aborted
  /\ IF FreeSlots = {}
       THEN /\ Goto(t, "rc_unlock")
            /\ SetLoc(t, [loc[t] EXCEPT !.outcome = "false"])
            /\ UNCHANGED checkpoint_functions
       ELSE LET i == CHOOSE j \in FreeSlots : \A k \in FreeSlots : j <= k IN
            /\ checkpoint_functions' = [checkpoint_functions EXCEPT ![i] = loc[t].function]
            /\ Goto(t, "rc_cas")
            /\ SetLoc(t, [loc[t] EXCEPT !.available_checkpoint = i])
  /\ UNCHANGED <<state_and_flags, thread_suspend_count_lock, closures, aborted, hist>>
  /\ CheckpointFrame

\* lines 622-637: the flag is set by a compare-and-swap against the word read
\* at line 604; when the word has changed the closure is taken out again.
\* RcCas that leaves the closure in its slot when the compare-and-swap fails.
MutRcCas(t) ==
  /\ pc[t] = "rc_cas" /\ ~aborted
  /\ IF state_and_flags = loc[t].old_state_and_flags
       THEN /\ state_and_flags' = [state_and_flags EXCEPT !.checkpoint_request = TRUE]
            /\ closures' = [closures EXCEPT !.accepted = @ \cup {loc[t].function}]
            /\ SetLoc(t, [loc[t] EXCEPT !.outcome = "true"])
       ELSE /\ SetLoc(t, [loc[t] EXCEPT !.outcome = "false"])
            /\ UNCHANGED <<state_and_flags, closures>>
  /\ Goto(t, "rc_unlock")
  /\ UNCHANGED <<checkpoint_functions, thread_suspend_count_lock, aborted, hist>>
  /\ CheckpointFrame

RcCas(t) ==
  /\ pc[t] = "rc_cas" /\ ~aborted
  /\ IF state_and_flags = loc[t].old_state_and_flags
       THEN /\ state_and_flags' = [state_and_flags EXCEPT !.checkpoint_request = TRUE]
            /\ closures' = [closures EXCEPT !.accepted = @ \cup {loc[t].function}]
            /\ Goto(t, "rc_unlock")
            /\ SetLoc(t, [loc[t] EXCEPT !.outcome = "true"])
            /\ UNCHANGED <<checkpoint_functions, aborted>>
       ELSE IF checkpoint_functions[loc[t].available_checkpoint] = loc[t].function
              THEN /\ checkpoint_functions' =
                        [checkpoint_functions EXCEPT ![loc[t].available_checkpoint] = 0]
                   /\ Goto(t, "rc_unlock")
                   /\ SetLoc(t, [loc[t] EXCEPT !.outcome = "false"])
                   /\ UNCHANGED <<state_and_flags, closures, aborted>>
              ELSE /\ aborted' = TRUE
                   /\ UNCHANGED <<state_and_flags, checkpoint_functions, closures, pc, loc>>
  /\ UNCHANGED <<thread_suspend_count_lock, hist>>
  /\ CheckpointFrame

\* RequestCheckpoint has returned; its caller releases the lock.
RcUnlock(t) ==
  /\ pc[t] = "rc_unlock" /\ ~aborted
  /\ thread_suspend_count_lock' = NoThread
  /\ Goto(t, "done")
  /\ UNCHANGED <<state_and_flags, checkpoint_functions, closures, aborted, loc, hist>>
  /\ CheckpointFrame

\* The target leaves Runnable (TransitionFromRunnableToSuspended): with a
\* checkpoint requested it runs the checkpoint instead.
TransitionFromRunnableToSuspended(t) ==
  /\ pc[t] = "idle" /\ ~aborted
  /\ state_and_flags.state = "Runnable" /\ ~state_and_flags.checkpoint_request
  /\ state_and_flags' = [state_and_flags EXCEPT !.state = "Suspended"]
  /\ UNCHANGED <<checkpoint_functions, thread_suspend_count_lock, closures, aborted,
                 pc, loc, hist>>
  /\ CheckpointFrame

\* The target becomes Runnable again (TransitionFromSuspendedToRunnable).
TransitionFromSuspendedToRunnable(t) ==
  /\ pc[t] = "idle" /\ ~aborted
  /\ state_and_flags.state = "Suspended"
  /\ state_and_flags' = [state_and_flags EXCEPT !.state = "Runnable"]
  /\ UNCHANGED <<checkpoint_functions, thread_suspend_count_lock, closures, aborted,
                 pc, loc, hist>>
  /\ CheckpointFrame

\* The target, at a suspend check or leaving Runnable, finds
\* kCheckpointRequest set and calls Thread::RunCheckpointFunction.
RunCheckpointFunction(t) ==
  /\ pc[t] = "idle" /\ ~aborted
  /\ state_and_flags.state = "Runnable" /\ state_and_flags.checkpoint_request
  /\ Goto(t, "rf_lock")
  /\ SetLoc(t, [NoLoc EXCEPT !.op = "checkpoint"])
  /\ UNCHANGED <<other, aborted, hist>>
  /\ CheckpointFrame

\* RcfCopy that copies the slots and clears the flag but leaves the slots.
MutRcfCopy(t) ==
  /\ pc[t] = "rf_lock" /\ ~aborted
  /\ thread_suspend_count_lock = NoThread
  /\ state_and_flags' = [state_and_flags EXCEPT !.checkpoint_request = FALSE]
  /\ Goto(t, "rf_run")
  /\ SetLoc(t, [loc[t] EXCEPT !.checkpoints = checkpoint_functions,
                              !.seen = closures.requested])
  /\ UNCHANGED <<checkpoint_functions, thread_suspend_count_lock, closures, aborted, hist>>
  /\ CheckpointFrame

\* lines 579-586: under thread_suspend_count_lock_ the slots are copied and
\* cleared and the flag is cleared.
RcfCopy(t) ==
  /\ pc[t] = "rf_lock" /\ ~aborted
  /\ thread_suspend_count_lock = NoThread
  /\ checkpoint_functions' = [i \in 1..kMaxCheckpoints |-> 0]
  /\ state_and_flags' = [state_and_flags EXCEPT !.checkpoint_request = FALSE]
  /\ Goto(t, "rf_run")
  /\ SetLoc(t, [loc[t] EXCEPT !.checkpoints = checkpoint_functions,
                              !.seen = closures.requested])
  /\ UNCHANGED <<thread_suspend_count_lock, closures, aborted, hist>>
  /\ CheckpointFrame

\* The closures of a copy of the slots, in slot order.
RECURSIVE Collected(_, _)
Collected(cp, i) ==
  IF i > kMaxCheckpoints THEN <<>>
  ELSE (IF cp[i] # 0 THEN <<cp[i]>> ELSE <<>>) \o Collected(cp, i + 1)

\* lines 588-599: outside the lock the copied closures are run;
\* CHECK(found_checkpoint).
RcfRun(t) ==
  /\ pc[t] = "rf_run" /\ ~aborted
  /\ LET run == Collected(loc[t].checkpoints, 1) IN
       IF run # <<>>
         THEN /\ closures' = [closures EXCEPT !.ran = @ \o run]
              /\ Goto(t, "done")
              /\ UNCHANGED <<aborted, loc>>
         ELSE /\ aborted' = TRUE
              /\ UNCHANGED <<closures, pc, loc>>
  /\ UNCHANGED <<state_and_flags, checkpoint_functions, thread_suspend_count_lock, hist>>
  /\ CheckpointFrame

\* --------------------------------------------- zygote compacting collector
\* Objects copied after BuildBins, and their sizes.
MaxCopied == 3
ObjectSizes == 1..3

\* Frame of a step of the zygote compacting collector.
BinFrame ==
  UNCHANGED <<heapCfg, heapGc, heapSpaces, heapSizes, config, native, refs, cards,
              checkpoints, markSweep, suspension, disable_moving_gc_count, process_state,
              num_bytes_allocated, space_bytes,
              allocation_rate, zygote_creation_lock, suspend_all_owner, running,
              aborted, pc, loc, hist>>

\* bins_.insert(std::make_pair(size, position)): the multimap keeps the pairs
\* in ascending order of size, a new pair after those of equal size.
Insert(b, size, position) ==
  LET k == Cardinality({i \in 1..Len(b) : b[i][1] <= size}) IN
    SubSeq(b, 1, k) \o <<(<<size, position>>)>> \o SubSeq(b, k + 1, Len(b))

\* AddBin that keeps the bins in the order of their insertion.
MutAddBin(b, size, position) ==
  IF size # 0 THEN Append(b, <<size, position>>) ELSE b

\* ZygoteCompactingCollector::AddBin, lines 1346-1350.
AddBin(b, size, position) ==
  IF size # 0 THEN Insert(b, size, position) ELSE b

\* bins_.lower_bound(size): the first pair whose size is not less than `size`,
\* 0 for bins_.end().
LowerBound(b, size) ==
  LET fit == {i \in 1..Len(b) : b[i][1] >= size} IN
    IF fit = {} THEN 0 ELSE CHOOSE i \in fit : \A j \in fit : i <= j

\* The live objects of the non-moving space, each one unit long: the sets of
\* their addresses.
LayoutChoices == SUBSET (0..(SpaceUnits - 1))

\* The walk of BuildBins (lines 1309-1320 and Callback, lines 1333-1344) over
\* the objects at the addresses `live` from address `a` on, `prev` being the
\* end of the previous object.
RECURSIVE Walk(_, _, _, _)
Walk(b, live, a, prev) ==
  IF a = SpaceUnits
    THEN AddBin(b, SpaceUnits - prev, prev)
    ELSE IF a \in live
           THEN Walk(AddBin(b, a - prev, prev), live, a + 1, a + 1)
           ELSE Walk(b, live, a + 1, prev)

\* PreZygoteFork, lines 1409-1415: BuildBins(non_moving_space_) and the
\* to-space that starts at the end of the non-moving space.
BuildBins ==
  /\ ~forwarded.built /\ ~aborted
  /\ \E live \in LayoutChoices :
       /\ bins' = Walk(<<>>, live, 0, 0)
       /\ forwarded' = [forwarded EXCEPT !.built = TRUE, !.live = live]
  /\ to_space_end' = SpaceUnits
  /\ BinFrame

\* MarkNonForwardedObject without bins_.erase(it) (line 1378).
MutMarkNonForwardedObject(object_size) ==
  /\ forwarded.built /\ ~aborted
  /\ forwarded.n < MaxCopied
  /\ LET it == LowerBound(bins, object_size) IN
       IF it = 0
         THEN /\ to_space_end' = to_space_end + object_size
              /\ UNCHANGED bins
              /\ forwarded' = [forwarded EXCEPT !.n = @ + 1,
                                 !.object_size = object_size,
                                 !.forward_address = to_space_end,
                                 !.bins_before = bins, !.end_before = to_space_end,
                                 !.placed = Append(@, <<object_size, to_space_end>>)]
         ELSE LET size == bins[it][1]
                  pos == bins[it][2]
              IN /\ bins' = AddBin(bins, size - object_size, pos + object_size)
                 /\ UNCHANGED to_space_end
                 /\ forwarded' = [forwarded EXCEPT !.n = @ + 1,
                                    !.object_size = object_size,
                                    !.forward_address = pos,
                                    !.bins_before = bins, !.end_before = to_space_end,
                                    !.placed = Append(@, <<object_size, pos>>)]
  /\ BinFrame

\* ZygoteCompactingCollector::MarkNonForwardedObject, lines 1358-1389, for an
\* object of aligned size object_size; to_space_->Alloc bumps the to-space's
\* end.
MarkNonForwardedObject(object_size) ==
  /\ forwarded.built /\ ~aborted
  /\ forwarded.n < MaxCopied
  /\ LET it == LowerBound(bins, object_size) IN
       IF it = 0
         THEN /\ to_space_end' = to_space_end + object_size
              /\ UNCHANGED bins
              /\ forwarded' = [forwarded EXCEPT !.n = @ + 1,
                                 !.object_size = object_size,
                                 !.forward_address = to_space_end,
                                 !.bins_before = bins, !.end_before = to_space_end,
                                 !.placed = Append(@, <<object_size, to_space_end>>)]
         ELSE LET size == bins[it][1]
                  pos == bins[it][2]
                  erased == SubSeq(bins, 1, it - 1) \o SubSeq(bins, it + 1, Len(bins))
              IN /\ bins' = AddBin(erased, size - object_size, pos + object_size)
                 /\ UNCHANGED to_space_end
                 /\ forwarded' = [forwarded EXCEPT !.n = @ + 1,
                                    !.object_size = object_size,
                                    !.forward_address = pos,
                                    !.bins_before = bins, !.end_before = to_space_end,
                                    !.placed = Append(@, <<object_size, pos>>)]
  /\ BinFrame

\* ------------------------------- ChangeCollector, one assignment at a time
\* Frame of a step of ChangeCollector in PreZygoteFork.
PzfCcFrame ==
  UNCHANGED <<heapGc, heapSpaces, max_allowed_footprint, next_gc_type, last_gc_size,
              native_need_to_run_finalization, config, native, refs, cards, other,
              disable_moving_gc_count, process_state, num_bytes_allocated, space_bytes,
              allocation_rate, zygote_creation_lock, suspend_all_owner, aborted, loc,
              hist>>

\* lines 1258-1259 of the call at line 1406: collector_type_ is assigned when
\* it differs; otherwise ChangeCollector returns and the zygote collector runs.
PzfCcType(t) ==
  /\ pc[t] = "p_after_gc" /\ ~aborted
  /\ IF post_zygote_collector_type # collector_type
       THEN /\ collector_type' = post_zygote_collector_type
            /\ Goto(t, "p_cc_clear")
            /\ UNCHANGED running
       ELSE /\ running' = running \cup {t}
            /\ Goto(t, "p_run")
            /\ UNCHANGED collector_type
  /\ UNCHANGED <<gc_plan, concurrent_gc, current_allocator, concurrent_start_bytes>>
  /\ PzfCcFrame

\* line 1260: gc_plan_.clear().
PzfCcClear(t) ==
  /\ pc[t] = "p_cc_clear" /\ ~aborted
  /\ gc_plan' = <<>>
  /\ Goto(t, "p_cc_concurrent")
  /\ UNCHANGED <<collector_type, concurrent_gc, current_allocator, concurrent_start_bytes,
                 running>>
  /\ PzfCcFrame

\* lines 1265, 1275, 1283: concurrent_gc_.
PzfCcConcurrent(t) ==
  /\ pc[t] = "p_cc_concurrent" /\ ~aborted
  /\ concurrent_gc' = ConcurrentFor(collector_type)
  /\ Goto(t, "p_cc_push")
  /\ UNCHANGED <<collector_type, gc_plan, current_allocator, concurrent_start_bytes,
                 running>>
  /\ PzfCcFrame

\* lines 1266, 1276-1278, 1284-1286: one gc_plan_.push_back.
PzfCcPush(t) ==
  /\ pc[t] = "p_cc_push" /\ ~aborted
  /\ gc_plan' = Append(gc_plan, PlanFor(collector_type)[Len(gc_plan) + 1])
  /\ IF Len(gc_plan) + 1 = Len(PlanFor(collector_type))
       THEN Goto(t, "p_cc_allocator")
       ELSE UNCHANGED pc
  /\ UNCHANGED <<collector_type, concurrent_gc, current_allocator, concurrent_start_bytes,
                 running>>
  /\ PzfCcFrame

\* lines 1267-1271, 1279, 1287: ChangeAllocator (lines 300-309).
PzfCcAllocator(t) ==
  /\ pc[t] = "p_cc_allocator" /\ ~aborted
  /\ current_allocator' = AllocatorFor(collector_type, use_tlab)
  /\ Goto(t, "p_cc_start")
  /\ UNCHANGED <<collector_type, gc_plan, concurrent_gc, concurrent_start_bytes, running>>
  /\ PzfCcFrame

\* lines 1294-1299: concurrent_start_bytes_; ChangeCollector returns and the
\* zygote compacting collector's Run() is entered.
PzfCcStart(t) ==
  /\ pc[t] = "p_cc_start" /\ ~aborted
  /\ concurrent_start_bytes' = ConcurrentStartFor(concurrent_gc, max_allowed_footprint)
  /\ running' = running \cup {t}
  /\ Goto(t, "p_run")
  /\ UNCHANGED <<collector_type, gc_plan, concurrent_gc, current_allocator>>
  /\ PzfCcFrame

\* ------------------------------------------------- card table specification
\* The write barrier after a reference-field store into an object of space s:
\* the card covering the object becomes DIRTY.
WriteBarrier(t, s) ==
  /\ pc[t] = "idle" /\ ~aborted
  /\ suspend_all_owner = NoThread
  /\ s \in continuous_spaces
  /\ card_table' = [card_table EXCEPT ![s] = kCardDirty]
  /\ card_age' = [card_age EXCEPT ![s] = 0]
  /\ UNCHANGED <<heapCfg, heapGc, heapSpaces, heapSizes, config, native, refs, other,
                 disable_moving_gc_count, process_state, num_bytes_allocated, space_bytes,
                 allocation_rate, zygote_creation_lock, suspend_all_owner, running,
                 aborted, pc, loc, hist>>

\* A mutator stores references while a thread of the runtime collects and
\* prepares the zygote's fork.
CardNext ==
  \/ \E t \in Mutators, s \in CardSpaces : WriteBarrier(t, s)
  \/ \E t \in RuntimeThreads :
       \/ CollectGarbage(t)
       \/ CgiEnter(t) \/ CgiStartGC(t) \/ CgiSelect(t) \/ CgiRunEnd(t) \/ CgiGrow(t)
       \/ CgiFinish(t)
       \/ PzfStart(t) \/ PzfChangeAndRun(t) \/ PzfRunEnd(t) \/ PzfSpaces(t)
       \/ Return(t)

CardSpec == Init /\ [][CardNext]_vars

\* ------------------------------------------------ checkpoint specification
\* A thread of the runtime requests checkpoints of the mutator, which changes
\* its state and runs them.
CheckpointNext ==
  \/ \E t \in RuntimeThreads :
       \/ RequestCheckpoint(t) \/ RcRead(t) \/ RcInstall(t) \/ RcCas(t) \/ RcUnlock(t)
       \/ Return(t)
  \/ \E t \in Mutators :
       \/ TransitionFromRunnableToSuspended(t) \/ TransitionFromSuspendedToRunnable(t)
       \/ RunCheckpointFunction(t) \/ RcfCopy(t) \/ RcfRun(t)
       \/ Return(t)

CheckpointSpec == Init /\ [][CheckpointNext]_vars

\* --------------------------------------------- configuration specification
\* A mutator requests explicit collections while a thread of the runtime
\* prepares the zygote's fork, ChangeCollector taken one assignment at a time.
ConfigNext ==
  \/ \E t \in Mutators :
       \/ CollectGarbage(t)
       \/ CgiEnter(t) \/ CgiStartGC(t) \/ CgiSelect(t) \/ CgiRunEnd(t) \/ CgiGrow(t)
       \/ CgiFinish(t)
       \/ Return(t)
  \/ \E t \in RuntimeThreads :
       \/ PzfStart(t)
       \/ CgiEnter(t) \/ CgiStartGC(t) \/ CgiSelect(t) \/ CgiRunEnd(t) \/ CgiGrow(t)
       \/ CgiFinish(t)
       \/ PzfCcType(t) \/ PzfCcClear(t) \/ PzfCcConcurrent(t) \/ PzfCcPush(t)
       \/ PzfCcAllocator(t) \/ PzfCcStart(t)
       \/ PzfRunEnd(t) \/ PzfSpaces(t)
       \/ Return(t)

ConfigSpec == Init /\ [][ConfigNext]_vars

\* ------------------------------------------------- bin packing specification
\* The zygote compacting collector builds its bins and copies objects.
BinNext ==
  \/ BuildBins
  \/ \E object_size \in ObjectSizes : MarkNonForwardedObject(object_size)

BinSpec == Init /\ [][BinNext]_vars

\* ------------------------------------------------ mark-sweep collection
\* The objects the non-null reference fields of object o point to: its
\* fields, or the referent and the finalizer's zombie field of a reference
\* object.
OutEdges(o) ==
  IF o \in PlainObjects THEN objects.fields[o]
  ELSE {objects.zombie[o], referent[o]} \ {"null"}
RECURSIVE ReachableFrom(_)
ReachableFrom(S) ==
  LET n == S \cup UNION {OutEdges(o) : o \in S}
  IN IF n = S THEN S ELSE ReachableFrom(n)

\* Frame of a step of the mutator's stores and of the mark-sweep collection.
MarkSweepFrame ==
  UNCHANGED <<heapCfg, heapGc, heapSpaces, heapSizes, config, native, cards, checkpoints,
              zygoteBins, suspension, referent, reference_queues, disable_moving_gc_count,
              process_state, num_bytes_allocated, space_bytes, allocation_rate,
              zygote_creation_lock, running, hist>>

\* A mutator stores into a reference field of an object it can reach: a
\* reference to an object it can reach, or null over a reference.  The card
\* is dirtied by the next step of the mutator.
StoreReference(t) ==
  /\ pc[t] = "idle" /\ ~aborted
  /\ CanRun
  /\ \E x \in ReachableFrom(objects.roots) \cap PlainObjects :
       /\ \/ \E y \in (ReachableFrom(objects.roots) \cap PlainObjects) \ {x} :
               objects' = [objects EXCEPT !.fields[x] = @ \cup {y}]
          \/ \E z \in objects.fields[x] :
               objects' = [objects EXCEPT !.fields[x] = @ \ {z}]
       /\ SetLoc(t, [NoLoc EXCEPT !.op = "store", !.target = x])
  /\ Goto(t, "w_barrier")
  /\ UNCHANGED <<mark_bits, mark_stack, markSweep, suspend_all_owner, aborted>>
  /\ MarkSweepFrame

\* The write barrier after the store: the card of the written object becomes
\* DIRTY.
MarkCard(t) ==
  /\ pc[t] = "w_barrier" /\ ~aborted
  /\ object_card' = [object_card EXCEPT ![loc[t].target] = kCardDirty]
  /\ Goto(t, "idle") /\ SetLoc(t, NoLoc)
  /\ UNCHANGED <<objects, mark_bits, mark_stack, swept, final_marked, suspend_all_owner,
                 aborted>>
  /\ MarkSweepFrame

\* No mutator is between a store and its card mark: these two have no
\* suspend check between them.
AtSafepoint == \A u \in Mutators : pc[u] # "w_barrier"

\* A full collection of the mark-sweep collector starts.  The stop-the-world
\* collector (MS) suspends the mutators for the whole collection, the
\* concurrent one (CMS) only for the final-mark pause.
MarkSweepStart(t) ==
  /\ pc[t] = "idle" /\ ~aborted
  /\ ~IsCompactingGC(collector_type)
  /\ IF concurrent_gc
       THEN UNCHANGED suspend_all_owner
       ELSE AtSafepoint /\ suspend_all_owner' = t
  /\ mark_bits' = {}
  /\ mark_stack' = {}
  /\ swept' = {}
  /\ final_marked' = {}
  /\ SetLoc(t, [NoLoc EXCEPT !.op = "marksweep"])
  /\ Goto(t, "c_cards")
  /\ UNCHANGED <<objects, object_card, aborted>>
  /\ MarkSweepFrame

\* Heap::ProcessCards, lines 1996-2002, on the space of the plain objects,
\* one card at a time: ModifyCardsAtomic ages the card.  After the last card
\* the roots are pushed on the mark stack.
MarkSweepProcessCards(t) ==
  /\ pc[t] = "c_cards" /\ ~aborted
  /\ IF loc[t].reached = PlainObjects
       THEN /\ mark_stack' = objects.roots
            /\ Goto(t, "c_mark")
            /\ SetLoc(t, [loc[t] EXCEPT !.reached = {}])
            /\ UNCHANGED object_card
       ELSE /\ \E o \in PlainObjects \ loc[t].reached :
                 /\ object_card' = [object_card EXCEPT ![o] = AgeCardVisitor(@)]
                 /\ SetLoc(t, [loc[t] EXCEPT !.reached = @ \cup {o}])
            /\ UNCHANGED <<mark_stack, pc>>
  /\ UNCHANGED <<objects, mark_bits, swept, final_marked, suspend_all_owner, aborted>>
  /\ MarkSweepFrame

\* The gray-stack walk that pushes nothing.
MutMarkSweepMark(t) ==
  /\ pc[t] = "c_mark" /\ ~aborted
  /\ \E o \in mark_stack :
       /\ mark_bits' = mark_bits \cup {o}
       /\ mark_stack' = mark_stack \ {o}
  /\ UNCHANGED <<objects, markSweep, suspend_all_owner, aborted, pc, loc>>
  /\ MarkSweepFrame

\* One step of the gray-stack walk of the marking phase: pop an object; if
\* its mark bit was not set, set it and push its non-null references.
MarkSweepMark(t) ==
  /\ pc[t] = "c_mark" /\ ~aborted
  /\ \E o \in mark_stack :
       /\ mark_bits' = mark_bits \cup {o}
       /\ mark_stack' = (mark_stack \ {o}) \cup
                        (IF o \in mark_bits THEN {} ELSE OutEdges(o))
  /\ UNCHANGED <<objects, markSweep, suspend_all_owner, aborted, pc, loc>>
  /\ MarkSweepFrame

\* The marking phase is over; the concurrent collector stops the mutators
\* for the final-mark pause.
MarkSweepSuspendAll(t) ==
  /\ pc[t] = "c_mark" /\ ~aborted
  /\ mark_stack = {}
  /\ IF concurrent_gc
       THEN AtSafepoint /\ suspend_all_owner = NoThread /\ suspend_all_owner' = t
       ELSE UNCHANGED suspend_all_owner
  /\ Goto(t, "c_final")
  /\ UNCHANGED <<objects, mark_bits, mark_stack, markSweep, aborted, loc>>
  /\ MarkSweepFrame

\* The marked objects on cards that are DIRTY.
DirtyObjects == {o \in mark_bits \cap PlainObjects : object_card[o] = kCardDirty}

\* The final-mark pause that marks the roots again and scans no card.
MutMarkSweepFinalMark(t) ==
  /\ pc[t] = "c_final" /\ ~aborted
  /\ LET again == ReachableFrom(objects.roots \ mark_bits) \ mark_bits
     IN /\ mark_bits' = mark_bits \cup again
        /\ final_marked' = again
  /\ Goto(t, "c_verify")
  /\ UNCHANGED <<objects, mark_stack, object_card, swept, suspend_all_owner, aborted, loc>>
  /\ MarkSweepFrame

\* The final-mark pause: with the mutators stopped, the roots are marked
\* again and every marked object on a DIRTY card is scanned anew, each with
\* all that is reached from it through objects not marked yet.
MarkSweepFinalMark(t) ==
  /\ pc[t] = "c_final" /\ ~aborted
  /\ LET RECURSIVE Grow(_)
         Grow(M) ==
           LET n == M \cup UNION {OutEdges(o) : o \in (M \ mark_bits) \cup DirtyObjects}
           IN IF n = M THEN M ELSE Grow(n)
         again == Grow(mark_bits \cup objects.roots) \ mark_bits
     IN /\ mark_bits' = mark_bits \cup again
        /\ final_marked' = again
  /\ Goto(t, "c_verify")
  /\ UNCHANGED <<objects, mark_stack, object_card, swept, suspend_all_owner, aborted, loc>>
  /\ MarkSweepFrame

\* Heap::VerifyHeapReferences, lines 1834-1849, with the mark bitmap as the
\* live bitmap: every reference of a live object and every root is live.
VerifyHeapReferences ==
  /\ \A o \in mark_bits : OutEdges(o) \subseteq mark_bits
  /\ objects.roots \subseteq mark_bits

\* Heap::PreSweepingGcVerification, lines 2053-2069, called in the pause:
\* under verify_post_gc_heap_ a failed verification is fatal.
PreSweepingGcVerification(t) ==
  /\ pc[t] = "c_verify" /\ ~aborted
  /\ \E verify_post_gc_heap \in BOOLEAN :
       aborted' = (verify_post_gc_heap /\ ~VerifyHeapReferences)
  /\ Goto(t, "c_resume")
  /\ UNCHANGED <<objects, mark_bits, mark_stack, markSweep, suspend_all_owner, loc>>
  /\ MarkSweepFrame

\* The concurrent collector lets the mutators run again before it sweeps.
MarkSweepResumeAll(t) ==
  /\ pc[t] = "c_resume" /\ ~aborted
  /\ suspend_all_owner' = IF concurrent_gc THEN NoThread ELSE suspend_all_owner
  /\ Goto(t, "c_sweep")
  /\ UNCHANGED <<objects, mark_bits, mark_stack, markSweep, aborted, loc>>
  /\ MarkSweepFrame

\* Sweeping: every object that is not marked is freed; the stop-the-world
\* collector resumes the mutators afterwards.
MarkSweepSweep(t) ==
  /\ pc[t] = "c_sweep" /\ ~aborted
  /\ swept' = PlainObjects \ mark_bits
  /\ suspend_all_owner' = NoThread
  /\ Goto(t, "done") /\ SetLoc(t, DoneLoc(t, "swept"))
  /\ UNCHANGED <<objects, mark_bits, mark_stack, object_card, final_marked, aborted>>
  /\ MarkSweepFrame

\* A process that is not the zygote, with a chain of three objects behind
\* one root.
MarkSweepInit ==
  /\ HeapFields(DefaultSizes, initial_size, 0)
  /\ ~is_zygote
  /\ objects = [roots |-> {"a"},
                fields |-> [o \in PlainObjects |->
                              IF o = "a" THEN {"b"} ELSE IF o = "b" THEN {"c"} ELSE {}],
                at_start |-> [r \in RefObjects |-> "null"],
                zombie |-> [r \in RefObjects |-> "null"]]
  /\ referent = [r \in RefObjects |-> "null"]
  /\ mark_bits = {}
  /\ mark_stack = {}
  /\ reference_queues = NoQueued
  /\ NoCards /\ NoCheckpoints /\ NoBins /\ NoMarkSweep

\* A mutator stores references while a thread of the runtime collects.
MarkSweepNext ==
  \/ \E t \in Mutators : StoreReference(t) \/ MarkCard(t)
  \/ \E t \in RuntimeThreads :
       \/ MarkSweepStart(t) \/ MarkSweepProcessCards(t) \/ MarkSweepMark(t)
       \/ MarkSweepSuspendAll(t) \/ MarkSweepFinalMark(t)
       \/ PreSweepingGcVerification(t) \/ MarkSweepResumeAll(t) \/ MarkSweepSweep(t)
       \/ Return(t)

MarkSweepSpec == MarkSweepInit /\ [][MarkSweepNext]_vars

\* ------------------------------------------------------ space specification
\* Sizes of the objects a mutator allocates.
AllocSizes == {64 * KB}

\* A successful allocation: the object's bytes are added to the space of the
\* current allocator and to the heap-wide counter.
Allocate(t) ==
  /\ pc[t] = "idle" /\ ~aborted
  /\ suspend_all_owner = NoThread
  /\ \E n \in AllocSizes :
       /\ num_bytes_allocated + n <= max_allowed_footprint
       /\ num_bytes_allocated' = num_bytes_allocated + n
       /\ space_bytes' =
            [space_bytes EXCEPT ![DefaultAllocSpace(collector_type, main_space)] = @ + n]
  /\ UNCHANGED <<heapCfg, heapGc, heapSpaces, heapSizes, config, native, refs, cards, other,
                 disable_moving_gc_count, process_state, allocation_rate,
                 zygote_creation_lock, suspend_all_owner, running, aborted, pc, loc, hist>>

\* The heap as constructed on any placement of its mappings.
SpaceInit ==
  \E maps \in MapChoices :
    /\ HeapFieldsAt(DefaultSizes, initial_size, 0, maps)
    /\ NoObjects /\ NoCards /\ NoCheckpoints /\ NoBins /\ NoMarkSweep

\* A thread of the runtime collects, changes the collector and prepares the
\* zygote's fork.
SpaceNext ==
  \E t \in RuntimeThreads :
     \/ CollectGarbage(t)
     \/ CgiEnter(t) \/ CgiStartGC(t) \/ CgiSelect(t) \/ CgiRunEnd(t) \/ CgiGrow(t)
     \/ CgiFinish(t)
     \/ TransitionCollector(t)
     \/ TcStartGC(t) \/ TcSuspendAll(t) \/ TcBody(t) \/ TcCompactEnd(t)
     \/ TcChangeCollector(t) \/ TcResumeAll(t) \/ TcGrow(t) \/ TcFinish(t)
     \/ PzfStart(t) \/ PzfChangeAndRun(t) \/ PzfRunEnd(t) \/ PzfSpaces(t)
     \/ Return(t)

SpaceSpec == SpaceInit /\ [][SpaceNext]_vars

\* ------------------------------------------------- accounting specification
\* A mutator allocates while a thread of the runtime collects and prepares
\* the zygote's fork.
AccountNext ==
  \/ \E t \in Mutators : Allocate(t)
  \/ \E t \in RuntimeThreads :
       \/ CollectGarbage(t)
       \/ CgiEnter(t) \/ CgiStartGC(t) \/ CgiSelect(t) \/ CgiRunEnd(t) \/ CgiGrow(t)
       \/ CgiFinish(t)
       \/ PzfStart(t) \/ PzfChangeAndRun(t) \/ PzfRunEnd(t) \/ PzfSpaces(t)
       \/ Return(t)

AccountSpec == Init /\ [][AccountNext]_vars

\* ------------------------------------ delayed referents specification
\* The address a moving collector copies a plain object to.
ToSpace == [a |-> "a_to", b |-> "b_to", c |-> "c_to"]
\* The mark_visitor handed to DelayReferenceReferent: null ("none") for an
\* object that is not marked, the object itself when it is marked in place
\* or is a copy already, its copy when a compacting collector moved it.
MarkVisitor(o) ==
  IF o \notin PlainObjects THEN o
  ELSE IF o \notin mark_bits THEN "none"
  ELSE IF IsCompactingGC(collector_type) THEN ToSpace[o] ELSE o

\* The reference objects the workers come across.
ScannedRefs == {"s1", "w1"}

\* Frame of a step of a GC worker that scans reference objects.
DelayFrame ==
  UNCHANGED <<heapCfg, heapGc, heapSpaces, heapSizes, config, native, cards, other,
              objects, mark_stack, disable_moving_gc_count, process_state,
              num_bytes_allocated, space_bytes, allocation_rate, zygote_creation_lock,
              suspend_all_owner, running, aborted>>

\* lines 668-675: a GC worker scans the reference object ref, reads its
\* referent (kept in `allocator`) and asks the mark_visitor for the
\* referent's forwarding address (kept in `result`).
DrrVisit(t) ==
  /\ pc[t] = "idle" /\ ~aborted
  /\ \E ref \in ScannedRefs :
       IF referent[ref] = "null"
         THEN /\ Goto(t, "done")
              /\ SetLoc(t, [NoLoc EXCEPT !.op = "delay", !.target = ref,
                                         !.outcome = "null"])
         ELSE /\ Goto(t, "d_visited")
              /\ SetLoc(t, [NoLoc EXCEPT !.op = "delay", !.target = ref,
                                         !.allocator = referent[ref],
                                         !.result = MarkVisitor(referent[ref])])
  /\ UNCHANGED <<referent, reference_queues, mark_bits, hist>>
  /\ DelayFrame

\* DrrAct whose enqueue does not test whether the reference is enqueued.
MutDrrAct(t) ==
  /\ pc[t] = "d_visited" /\ ~aborted
  /\ LET ref == loc[t].target IN
       IF loc[t].result = "none"
         THEN /\ reference_queues' =
                   [reference_queues EXCEPT ![KindOf[ref]] = Append(@, ref)]
              /\ SetLoc(t, [loc[t] EXCEPT !.outcome = "enqueue"])
              /\ UNCHANGED referent
         ELSE IF loc[t].allocator # loc[t].result
           THEN /\ referent' = [referent EXCEPT ![ref] = loc[t].result]
                /\ SetLoc(t, [loc[t] EXCEPT !.outcome = "update"])
                /\ UNCHANGED reference_queues
           ELSE /\ SetLoc(t, [loc[t] EXCEPT !.outcome = "skip"])
                /\ UNCHANGED <<referent, reference_queues>>
  /\ Goto(t, "done")
  /\ UNCHANGED <<mark_bits, hist>>
  /\ DelayFrame

\* lines 676-697: with no forwarding address the reference goes through
\* AtomicEnqueueIfNotEnqueued of the queue of its class, which under the
\* queue's lock enqueues it unless it is enqueued already; with a forwarding
\* address that differs from the referent read, the referent is updated.
DrrAct(t) ==
  /\ pc[t] = "d_visited" /\ ~aborted
  /\ LET ref == loc[t].target IN
       IF loc[t].result = "none"
         THEN /\ reference_queues' =
                   IF IsEnqueued(ref) THEN reference_queues
                   ELSE [reference_queues EXCEPT ![KindOf[ref]] = Append(@, ref)]
              /\ SetLoc(t, [loc[t] EXCEPT !.outcome = "enqueue"])
              /\ UNCHANGED referent
         ELSE IF loc[t].allocator # loc[t].result
           THEN /\ referent' = [referent EXCEPT ![ref] = loc[t].result]
                /\ SetLoc(t, [loc[t] EXCEPT !.outcome = "update"])
                /\ UNCHANGED reference_queues
           ELSE /\ SetLoc(t, [loc[t] EXCEPT !.outcome = "skip"])
                /\ UNCHANGED <<referent, reference_queues>>
  /\ Goto(t, "done")
  /\ UNCHANGED <<mark_bits, hist>>
  /\ DelayFrame

\* A GC worker marks a plain object it reached.
MarkObject(t) ==
  /\ pc[t] = "idle" /\ ~aborted
  /\ \E o \in PlainObjects \ mark_bits : mark_bits' = mark_bits \cup {o}
  /\ UNCHANGED <<referent, reference_queues, pc, loc, hist>>
  /\ DelayFrame

\* Two GC workers mark objects and scan reference objects, the same one any
\* number of times.
DelayNext ==
  \E t \in Threads : DrrVisit(t) \/ DrrAct(t) \/ MarkObject(t) \/ Return(t)

\* The reference objects are roots and the plain objects hold no references.
DelayInit ==
  /\ RefInit
  /\ objects.roots = RefObjects \ {"s2"}
  /\ \A o \in PlainObjects : objects.fields[o] = {}

DelaySpec == DelayInit /\ [][DelayNext]_vars

\* ------------------------------------------------ zygote fork specification
\* Every thread may call PreZygoteFork and request explicit collections.
ForkNext ==
  \E t \in Threads :
    \/ PzfStart(t) \/ PzfChangeAndRun(t) \/ PzfRunEnd(t) \/ PzfSpaces(t)
    \/ CollectGarbage(t)
    \/ CgiEnter(t) \/ CgiStartGC(t) \/ CgiSelect(t) \/ CgiRunEnd(t) \/ CgiGrow(t)
    \/ CgiFinish(t)
    \/ Return(t)

ForkSpec == Init /\ [][ForkNext]_vars

\* --------------------------------------- concurrent request specification
\* The allocation fast path: the object's bytes are counted and, for an
\* allocator that has a concurrent collector, an allocation that brings
\* num_bytes_allocated_ to concurrent_start_bytes_ or above calls
\* RequestConcurrentGC (lines 2277-2293), which sets concurrent_start_bytes_
\* to its maximum and wakes the GC daemon.  The daemon answers a request with
\* one ConcurrentGC call: from the request on, t stands for the daemon making
\* that call (the allocating call has nothing left to do).
AllocObject(t) ==
  /\ pc[t] = "idle" /\ ~aborted
  /\ suspend_all_owner = NoThread
  /\ \E n \in AllocSizes :
       /\ num_bytes_allocated + n <= max_allowed_footprint
       /\ num_bytes_allocated' = num_bytes_allocated + n
       /\ space_bytes' =
            [space_bytes EXCEPT ![DefaultAllocSpace(collector_type, main_space)] = @ + n]
       /\ IF /\ current_allocator \notin {"BumpPointer", "TLAB"}
             /\ num_bytes_allocated + n >= concurrent_start_bytes
            THEN /\ concurrent_start_bytes' = kSizeMax
                 /\ Goto(t, "c_wait")
                 /\ SetLoc(t, [NoLoc EXCEPT !.op = "concgc"])
                 /\ SetHist(t, [NoHist EXCEPT !.ev = <<"request">>])
            ELSE UNCHANGED <<concurrent_start_bytes, pc, loc, hist>>
  /\ UNCHANGED <<heapCfg, heapGc, heapSpaces, max_allowed_footprint, next_gc_type,
                 last_gc_size, native_need_to_run_finalization, config, native, refs,
                 cards, other, disable_moving_gc_count, process_state, allocation_rate,
                 zygote_creation_lock, suspend_all_owner, running, aborted>>

\* The daemon's ConcurrentGC call.
ConcContinue(t) ==
  \/ ConcWait(t) \/ ConcWaited(t) \/ ConcCall(t) \/ ConcAfterFirst(t)
  \/ ConcLoop(t) \/ ConcAfterLoop(t)

\* RegisterNativeAllocation up to its return.
RnaContinue(t) ==
  \/ RnaRunFinalizationFirst(t) \/ RnaUpdateFirst(t) \/ RnaAdd(t)
  \/ RnaCheckWatermark(t) \/ RnaCheckLimit(t) \/ RnaWait(t) \/ RnaWaited(t)
  \/ RnaRunFinalizationWaited(t) \/ RnaCheckAgain(t) \/ RnaAfterGc(t) \/ RnaUpdate(t)

\* In a process that is not the zygote the mutator allocates objects and a
\* thread of the runtime registers native allocations.
RequestNext ==
  \/ \E t \in Mutators : AllocObject(t) \/ ConcContinue(t)
  \/ \E t \in RuntimeThreads : RegisterNativeAllocation(t) \/ RnaContinue(t)
  \/ \E t \in Threads :
       \/ CgiEnter(t) \/ CgiStartGC(t) \/ CgiSelect(t) \/ CgiRunEnd(t) \/ CgiGrow(t)
       \/ CgiFinish(t)
       \/ Return(t)

RequestSpec == NativeInit /\ [][RequestNext]_vars

\* ------------------------------------------- GC daemon fair specification
\* A process with the concurrent collector that is not the zygote: the
\* mutator allocates objects, a thread of the runtime requests explicit
\* collections.
DaemonInit == NativeInit /\ post_zygote_collector_type = "CMS"

DaemonContinue(t) ==
  \/ ConcContinue(t)
  \/ CgiEnter(t) \/ CgiStartGC(t) \/ CgiSelect(t) \/ CgiRunEnd(t) \/ CgiGrow(t)
  \/ CgiFinish(t)
  \/ Return(t)

DaemonNext ==
  \/ \E t \in Mutators : AllocObject(t)
  \/ \E t \in RuntimeThreads : CollectGarbage(t)
  \/ \E t \in Threads : DaemonContinue(t)

\* Fair scheduling: a call in progress eventually takes its next step, and a
\* waiter that is again and again able to take gc_complete_lock_ with no GC
\* running eventually does.
DaemonFairSpec ==
  /\ DaemonInit /\ [][DaemonNext]_vars
  /\ \A t \in Threads :
       /\ WF_vars(DaemonContinue(t))
       /\ SF_vars(~is_gc_running /\ (ConcWaited(t) \/ CgiStartGC(t)))

\* ------------------------------------------- suspend count specification
\* Largest suspend_count_, and largest debt of debug_suspend_count_, explored.
MaxSuspendCount == 2

\* Frame of a step of Thread::ModifySuspendCount.
SuspendFrame ==
  UNCHANGED <<heapCfg, heapGc, heapSpaces, heapSizes, config, native, refs, cards, zygoteBins,
              markSweep, checkpoint_functions, closures,
              disable_moving_gc_count, process_state, num_bytes_allocated, space_bytes,
              allocation_rate, zygote_creation_lock, suspend_all_owner, running>>

\* The caller of Thread::ModifySuspendCount holds thread_suspend_count_lock_
\* (line 551) and passes a delta that the DCHECK of line 548 accepts.
ModifySuspendCount(t) ==
  /\ pc[t] = "idle" /\ ~aborted
  /\ thread_suspend_count_lock = NoThread
  /\ thread_suspend_count_lock' = t
  /\ \E delta \in {-1, 1, -debug_suspend_count}, for_debugger \in BOOLEAN :
       /\ suspend_count + delta <= MaxSuspendCount
       /\ for_debugger =>
            debug_suspend_count + delta \in -MaxSuspendCount..MaxSuspendCount
       /\ SetLoc(t, [NoLoc EXCEPT !.op = "modify", !.delta = delta,
                                   !.for_debugger = for_debugger])
  /\ Goto(t, "s_modify")
  /\ SetHist(t, NoHist)
  /\ UNCHANGED <<state_and_flags, suspension, aborted>>
  /\ SuspendFrame

\* Thread::ModifySuspendCount, lines 547-570, and the caller's unlock.  In a
\* debug build the DCHECK_GE of line 550 stops the process.
MscBody(t) ==
  /\ pc[t] = "s_modify" /\ ~aborted
  /\ \E debug \in BOOLEAN :
       IF debug /\ suspend_count < debug_suspend_count
         THEN /\ aborted' = TRUE
              /\ UNCHANGED <<state_and_flags, suspension, thread_suspend_count_lock,
                             pc, loc>>
         ELSE IF loc[t].delta < 0 /\ suspend_count <= 0
           \* UnsafeLogFatalForSuspendCount, lines 527-545
           THEN /\ aborted' = TRUE
                /\ thread_suspend_count_lock' = NoThread
                /\ UNCHANGED <<state_and_flags, suspension, pc, loc>>
           ELSE /\ suspend_count' = suspend_count + loc[t].delta
                /\ debug_suspend_count' =
                     IF loc[t].for_debugger THEN debug_suspend_count + loc[t].delta
                                            ELSE debug_suspend_count
                /\ state_and_flags' =
                     [state_and_flags EXCEPT
                        !.suspend_request = (suspend_count + loc[t].delta # 0)]
                /\ thread_suspend_count_lock' = NoThread
                /\ Goto(t, "done")
                /\ SetLoc(t, [loc[t] EXCEPT !.outcome = "modified"])
                /\ UNCHANGED aborted
  /\ UNCHANGED hist
  /\ SuspendFrame

\* Any thread suspends and resumes the mutator, for the debugger or not.
SuspendNext == \E t \in Threads : ModifySuspendCount(t) \/ MscBody(t) \/ Return(t)

SuspendSpec == Init /\ [][SuspendNext]_vars

\* ---------------------------------------------------------------- claims
\* Points of CollectGarbageInternal, and those of it and of
\* TransitionCollector that lie between a successful StartGC and FinishGC.
CgiPcs == {"g_enter", "g_start", "g_select", "g_running", "g_grow", "g_finish"}
CgiGcPcs == {"g_select", "g_running", "g_grow", "g_finish"}
TcGcPcs == {"t_suspend", "t_body", "t_compact", "t_change", "t_resume", "t_grow",
            "t_finish"}
HoldsGc(t) == pc[t] \in CgiGcPcs \cup TcGcPcs

\* Points at which a caller has CollectGarbageInternal's return value.
AfterCgiPcs == {"a_after_gc", "a_after_soft", "c_after_first", "c_after_loop",
                "p_after_gc"}

\* Points at which a thread is inside WaitForGcToComplete or StartGC.
WaitPcs == {"a_waiting", "c_waiting", "g_start", "t_start"}

\* The step is one of thread t: it moved, or it blocked on gc_complete_cond_.
Acted(t) ==
  \/ pc'[t] # pc[t] \/ loc'[t] # loc[t] \/ hist'[t] # hist[t]
  \/ (t \in gc_complete_cond' /\ t \notin gc_complete_cond)

\* Thread t is inside AllocateInternalWithGc.
InSlowPath(t) == loc[t].op = "alloc" /\ pc[t] # "done"

\* C1: at most one collection is in progress at any time: no two collector
\* Run invocations overlap (the zygote compacting collector's Run inside
\* PreZygoteFork included), and at most one thread is between a successful
\* StartGC and its matching FinishGC.
C1_OneCollectionAtATime ==
  /\ Cardinality(running) <= 1
  /\ Cardinality({t \in Threads : HoldsGc(t)}) <= 1

\* A compacting collection or a copying transition is running in thread t.
MovingGcRunning(t) ==
  \/ pc[t] \in CgiGcPcs /\ loc[t].compacting
  \/ pc[t] \in TcGcPcs /\ CopyingTransition

\* C2: in every reachable state in which a compacting collection or a moving
\* collector transition is between its successful StartGC and its FinishGC,
\* disable_moving_gc_count_ is zero.
C2_CountZeroWhileMoving ==
  \A t \in Threads : MovingGcRunning(t) => disable_moving_gc_count = 0

\* Order in which the slow path moves from one of its steps (hist.stage) to
\* the next.
SlowPathOrder ==
  {<<0, 1>>, <<1, 2>>, <<1, 3>>, <<2, 3>>, <<3, 4>>, <<4, 3>>, <<3, 5>>, <<4, 5>>,
   <<5, 6>>, <<6, 7>>, <<7, 8>>}

C3Inv(t) ==
  (InSlowPath(t) /\ pc[t] \in CgiPcs) =>
     /\ hist[t].stage \in {3, 6}
     /\ loc[t].soft <=> hist[t].stage = 6

C3Step(t) ==
  (InSlowPath(t) /\ Acted(t)) =>
    LET s == hist[t].stage
        s2 == hist'[t].stage
        requested == hist'[t].gcs # hist[t].gcs
    IN /\ s2 = s \/ <<s, s2>> \in SlowPathOrder
       \* a successful retry ends the path: no further retry or collection
       /\ loc[t].ptr => (s2 = s /\ ~requested)
       \* collections: plan entries in plan order without soft references,
       \* then gc_plan_.back() with them, only after the growing retry failed
       /\ requested =>
            /\ s2 \in {3, 6}
            /\ s2 = 3 => /\ ~loc'[t].soft
                         /\ loc'[t].idx = loc[t].idx + 1
                         /\ loc'[t].idx <= Len(gc_plan) =>
                              loc'[t].gc_type = gc_plan[loc'[t].idx]
            /\ s2 = 6 => s = 5 /\ loc'[t].soft /\ loc'[t].gc_type = PlanBack
       \* the retry after a plan collection happens exactly when it ran
       /\ (s = 3 /\ s2 = 4) => loc[t].result # "None"
       /\ (s = 3 /\ (requested \/ s2 = 5)) => loc[t].result = "None"
       /\ pc'[t] = "done" =>
            \/ loc'[t].outcome = "obj" /\ s2 \in {2, 4, 5, 7}
            \/ loc'[t].outcome = "null" /\ s2 \in {1, 3, 6}
            \/ loc'[t].outcome = "oom" /\ s2 = 8

\* C3: AllocateInternalWithGc performs its stages in a fixed order and stops
\* at the first stage whose retry succeeds: wait and retry without growth;
\* each plan entry in plan order without clearing soft references, retrying
\* without growth after each collection that ran; one retry with growth;
\* gc_plan_.back() clearing soft references and a retry with growth;
\* OutOfMemoryError.  No soft-clearing collection starts earlier.
C3_StagesInOrder ==
  /\ [](\A t \in Threads : C3Inv(t))
  /\ [][\A t \in Threads : C3Step(t)]_vars

\* A request went through every stage: three plan collections, the
\* soft-reference collection, and the error.
C3_Witness ==
  \E t \in Threads :
    pc[t] = "done" /\ loc[t].op = "alloc" /\ loc[t].outcome = "oom" /\ hist[t].gcs = 4

\* C4: OutOfMemoryError is thrown only after a collection with
\* clear_soft_references = true has actually run (a collector Run completed)
\* since the failing request entered the slow path.
C4_OomOnlyAfterSoftRun ==
  \A t \in Threads :
    (pc[t] = "done" /\ loc[t].op = "alloc" /\ loc[t].outcome = "oom")
      => hist[t].soft_ran

\* C5: when the allocator passed in was the current allocator on entry and
\* current_allocator_ changes during the slow path, no TryToAllocate runs with
\* the stale allocator and no OutOfMemoryError is thrown for it.
C5_NoStaleAllocator ==
  \A t \in Threads :
    loc[t].op = "alloc" =>
      /\ ~hist[t].stale_try
      /\ pc[t] = "a_oom" => ~AllocatorChanged(t)

\* Stage of the slow path, numbered as in its description, for a step
\* hist.stage.
ClaimStage(s) ==
  CASE s \in {0, 1, 2} -> 1
    [] s \in {3, 4} -> 2
    [] s = 5 -> 3
    [] s \in {6, 7} -> 4
    [] OTHER -> 5

\* loc.end is the number of plan entries the loop found when it began.
C6Inv(t) ==
  InSlowPath(t) =>
    /\ hist[t].gcs <= loc[t].end + 1
    /\ hist[t].stage < 6 => hist[t].gcs <= loc[t].end

C6Step(t) ==
  (InSlowPath(t) /\ loc'[t].op = "alloc") =>
    ClaimStage(hist'[t].stage) >= ClaimStage(hist[t].stage)

\* C6: every AllocateInternalWithGc call terminates (object, null, or
\* OutOfMemoryError) after starting at most (number of plan entries + 1)
\* collections, and never goes back to an earlier stage, whatever
\* collections and plan changes other threads make meanwhile.
C6_BoundedSlowPath ==
  /\ [](\A t \in Threads : C6Inv(t))
  /\ [][\A t \in Threads : C6Step(t)]_vars
  /\ \A t \in Mutators : (loc[t].op = "alloc") ~> (pc[t] = "done" \/ aborted)

\* The plan changed under a request which has nevertheless started exactly
\* (entries at loop start + 1) collections.
C6_Witness ==
  \E t \in Threads :
    /\ InSlowPath(t) /\ loc[t].end # 0 /\ loc[t].end # Len(gc_plan)
    /\ hist[t].gcs = loc[t].end + 1

\* C7: under fair scheduling a started GC completes and wakes its waiters:
\* is_gc_running_ is reset only by FinishGC, which broadcasts, it is always
\* reset eventually, and every thread inside WaitForGcToComplete or StartGC
\* eventually leaves it.
C7_GcCompletes ==
  /\ [][(is_gc_running /\ ~is_gc_running') =>
          /\ gc_complete_cond' = {}
          /\ \E t \in Threads : pc[t] \in {"g_finish", "t_finish"} /\ pc'[t] # pc[t]]_vars
  /\ is_gc_running ~> (~is_gc_running \/ aborted)
  /\ \A t \in Threads : (pc[t] \in WaitPcs) ~> (pc[t] \notin WaitPcs \/ aborted)

\* A GC is running and a thread is blocked waiting for it.
C7_Witness == is_gc_running /\ gc_complete_cond # {}

\* Heap fields a collection that does not start must leave alone.
GcFields ==
  <<is_gc_running, last_gc_type, next_gc_type, max_allowed_footprint,
    concurrent_start_bytes>>

\* Progress of one CollectGarbageInternal call (hist.cg).
CgOrder ==
  {<<"none", "started">>, <<"started", "ran">>, <<"ran", "grown">>,
   <<"grown", "finished">>}

C8Inv(t) ==
  /\ pc[t] \in AfterCgiPcs =>
       \/ loc[t].result = "None" /\ hist[t].cg = "none"
       \/ loc[t].result # "None" /\ hist[t].cg = "finished"
  /\ (pc[t] = "done" /\ loc[t].op = "collect") =>
       \/ loc[t].outcome = "None" /\ hist[t].cg = "none"
       \/ loc[t].outcome # "None" /\ hist[t].cg = "finished"
  /\ (t \in running /\ pc[t] \in CgiPcs) => (pc[t] = "g_running" /\ hist[t].cg = "started")

C8Step(t) ==
  (pc[t] \in CgiPcs /\ Acted(t)) =>
    LET c == hist[t].cg
        c2 == hist'[t].cg
        returned == IF loc[t].ret = "done" THEN loc'[t].outcome ELSE loc'[t].result
    IN /\ c2 = c \/ <<c, c2>> \in CgOrder
       /\ (c = "none" /\ c2 = "none") => UNCHANGED GcFields
       /\ (c = "started" /\ c2 = "ran") => (t \in running /\ t \notin running')
       /\ (c = "ran" /\ c2 = "grown") =>
            \E d \in DurationChoices : GrowForUtilization(loc[t].gc_type, d, FALSE)
       /\ (c = "grown" /\ c2 = "finished") =>
            (FinishGC(loc[t].gc_type) /\ returned = loc[t].gc_type)
       /\ pc'[t] \notin CgiPcs =>
            \/ c2 = "none" /\ returned = "None"
            \/ c2 = "finished" /\ returned # "None"

\* C8: each CollectGarbageInternal call either returns kGcTypeNone having run
\* no collector and left is_gc_running_, last_gc_type_, next_gc_type_,
\* max_allowed_footprint_ and concurrent_start_bytes_ unchanged, or runs one
\* collector to completion, then GrowForUtilization, then FinishGC, and
\* returns the GC type that ran.
C8_AllOrNothing ==
  /\ [](\A t \in Threads : C8Inv(t))
  /\ [][\A t \in Threads : C8Step(t)]_vars

\* A compacting collection was refused because of the disable count, after an
\* earlier collection had completed.
C8_Witness ==
  \E t \in Threads :
    /\ pc[t] \in AfterCgiPcs /\ loc[t].result = "None"
    /\ disable_moving_gc_count # 0 /\ IsCompactingGC(collector_type)
    /\ last_gc_type # "None"

\* C9 as stated: a TransitionCollector call that reported the disable-count
\* warning skips the transition: it never starts the GC, suspends the
\* mutators or completes the transition.
C9_TransitionSkipped ==
  \A t \in Threads :
    hist[t].warned => (pc[t] \notin TcGcPcs /\ loc[t].outcome # "Full")

C9Inv(t) ==
  /\ pc[t] = "t_sleep" => hist[t].warned
  /\ (pc[t] = "done" /\ hist[t].warned) => loc[t].outcome = "Full"

C9Step(t) ==
  (pc[t] = "t_start" /\ Acted(t)) =>
    /\ pc'[t] \in {"t_start", "t_sleep", "t_suspend"}
    /\ (~is_gc_running /\ StartGCRefuses(CopyingTransition)) =>
         /\ pc'[t] = "t_sleep" /\ hist'[t].warned
         /\ UNCHANGED <<heapCfg, heapGc, heapSpaces, suspend_all_owner>>
    /\ pc'[t] = "t_suspend" => ~StartGCRefuses(CopyingTransition)

\* C9 amended: while disable_moving_gc_count_ is non-zero a copying
\* transition reports the warning, changes nothing, suspends nobody and calls
\* StartGC again after a sleep; it returns only after it has performed the
\* transition, which it starts once the count is zero.
C9_TransitionRetried ==
  /\ [](\A t \in Threads : C9Inv(t))
  /\ [][\A t \in Threads : C9Step(t)]_vars

\* A call that reported the warning has completed its transition.
C9_Witness ==
  \E t \in Threads : pc[t] = "done" /\ hist[t].warned /\ loc[t].outcome = "Full"

\* C10: collector_type_, gc_plan_, concurrent_gc_ and current_allocator_
\* change only while is_gc_running_ is true and all mutators are suspended.
C10_ChangeOnlyStopTheWorld ==
  [][heapCfg' # heapCfg => (is_gc_running /\ suspend_all_owner # NoThread)]_vars

\* Collector UpdateProcessState asks for in process state s (lines 349-353).
TargetFor(s) ==
  IF s = "JankPerceptible" THEN post_zygote_collector_type ELSE background_collector_type

\* C11 as stated: every UpdateProcessState call results in exactly one
\* collector transition or, when the heap already uses the target collector,
\* in exactly one full GC request.
C11_TransitionOrGc ==
  \A t \in Threads :
    (loc[t].op = "ups" /\ pc[t] = "done")
      => \/ hist[t].trans = 1 /\ hist[t].gcs = 0
         \/ hist[t].trans = 0 /\ hist[t].gcs = 1

C11Inv(t) ==
  loc[t].op = "ups" =>
    /\ hist[t].ups \in {"changed", "same"}
    /\ hist[t].ups = "same" => (hist[t].trans = 0 /\ hist[t].gcs = 1 /\ loc[t].target = "none")
    /\ hist[t].ups = "changed" =>
         /\ hist[t].gcs = 0 /\ hist[t].trans <= 1
         /\ hist[t].trans = 1 => collector_type = TargetFor(process_state)
         /\ pc[t] = "done" =>
              /\ collector_type = TargetFor(process_state)
              /\ hist[t].trans = (IF loc[t].outcome = "Full" THEN 1 ELSE 0)

C11Step(t) ==
  (pc[t] = "idle" /\ loc'[t].op = "ups") =>
    IF process_state' # process_state
      THEN /\ hist'[t].ups = "changed"
           /\ IF TargetFor(process_state') = collector_type
                THEN pc'[t] = "done"
                ELSE pc'[t] = "t_start" /\ loc'[t].target = TargetFor(process_state')
      ELSE /\ hist'[t].ups = "same"
           /\ pc'[t] = "g_enter" /\ loc'[t].gc_type = "Full" /\ ~loc'[t].soft

\* C11 (amended): UpdateProcessState(s) with s different from process_state_
\* records s and calls TransitionCollector for the post-zygote collector
\* (jank-perceptible) or the background collector (otherwise): that call makes
\* one transition, or none when the heap already uses the target, and requests
\* no GC.  UpdateProcessState(s) with s equal to process_state_ makes no
\* transition and requests exactly one full GC that keeps soft references.
C11_StateChangeOrGc ==
  /\ [](\A t \in Threads : C11Inv(t))
  /\ [][\A t \in Threads : C11Step(t)]_vars

\* An UpdateProcessState call that changed the process state has returned
\* having made neither a transition nor a GC request.
C11_Witness ==
  \E t \in Threads :
    /\ loc[t].op = "ups" /\ pc[t] = "done"
    /\ hist[t].ups = "changed" /\ hist[t].trans = 0 /\ hist[t].gcs = 0

\* C12: with post-zygote collector MS and background collector SS,
\* UpdateProcessState(background) on a heap using MS performs one transition
\* (it is carried out, the process is not killed in it) and leaves the
\* bump-pointer or TLAB allocator current; a following
\* UpdateProcessState(jank-perceptible) restores collector MS, the malloc
\* allocator, the plan [sticky, partial, full], concurrent_gc_ = false and a
\* non-null main_space_.
C12_RoundTrip ==
  (post_zygote_collector_type = "MS" /\ background_collector_type = "SS") =>
    \A t \in Threads :
      hist[t].ups = "changed" =>
        /\ ~(aborted /\ pc[t] = "t_body" /\ loc[t].target = "SS")
        /\ (pc[t] = "done" /\ process_state = "Background" /\ hist[t].trans = 1) =>
             current_allocator \in {"BumpPointer", "TLAB"}
        /\ (pc[t] = "done" /\ process_state = "JankPerceptible") =>
             /\ collector_type = "MS"
             /\ current_allocator = (IF kUseRosAlloc THEN "RosAlloc" ELSE "DlMalloc")
             /\ gc_plan = <<"Sticky", "Partial", "Full">>
             /\ ~concurrent_gc
             /\ main_space

\* A completed transition from a moving to a non-moving collector: it evacuated
\* into the main space.
MovingToNonMoving(t) ==
  /\ loc[t].op \in {"tc", "ups"} /\ pc[t] \in {"t_resume", "t_grow", "t_finish", "done"}
  /\ hist[t].trans = 1 /\ hist[t].cto = "main_space"

\* What C13 and its amended form agree on: the bump-pointer space was
\* evacuated into a malloc space created from the retained mapping, which is
\* consumed, and the malloc allocator is current.
EvacuatedToMalloc(t) ==
  /\ hist[t].cfrom = "bump_pointer_space"
  /\ main_space /\ ~allocator_mem_map /\ "main_space" \in continuous_spaces
  /\ ~IsCompactingGC(collector_type)
  /\ current_allocator = (IF kUseRosAlloc THEN "RosAlloc" ELSE "DlMalloc")

\* C13 as stated: a moving-to-non-moving transition evacuates the bump-pointer
\* space into a malloc space created from the retained mapping, removes the
\* bump-pointer space from the space list and makes the malloc allocator
\* current.
C13_BumpSpaceRemoved ==
  \A t \in Threads :
    MovingToNonMoving(t) =>
      /\ EvacuatedToMalloc(t)
      /\ "bump_pointer_space" \notin continuous_spaces

\* C13 (amended): a moving-to-non-moving transition evacuates the bump-pointer
\* space into a malloc space created from the retained mapping and makes the
\* malloc allocator current; both bump-pointer spaces stay in the space list.
C13_BumpSpaceKept ==
  \A t \in Threads :
    MovingToNonMoving(t) =>
      /\ EvacuatedToMalloc(t)
      /\ {"bump_pointer_space", "temp_space"} \subseteq continuous_spaces

\* A transition from SS/GSS to MS/CMS has been completed.
C13_Witness ==
  \E t \in Threads : MovingToNonMoving(t) /\ pc[t] = "done"

\* A step in which thread t completes GrowForUtilization inside
\* CollectGarbageInternal.
GrowStep(t) == pc[t] = "g_grow" /\ pc'[t] = "g_finish"

\* bytesAllocated / utilization, truncated.
ByUtilization(b) == (b * sizes.util_den) \div sizes.util_num

\* C14 as stated: after GrowForUtilization for a non-sticky GC the footprint
\* target is max(min(bytes/utilization, bytes+maxFree), bytes+minFree)
\* (stored through SetIdealFootprint) for all sizing values, and
\* next_gc_type_ is sticky.
C14_NonStickyTarget ==
  [][\A t \in Threads :
       (GrowStep(t) /\ loc[t].gc_type # "Sticky") =>
         LET b == num_bytes_allocated
         IN /\ max_allowed_footprint' =
                 SetIdealFootprint(Max(Min(ByUtilization(b), b + sizes.max_free),
                                       b + sizes.min_free))
            /\ next_gc_type' = "Sticky"]_vars

\* C14 (amended): after GrowForUtilization for a non-sticky GC the footprint
\* target is bytes+maxFree when bytes/utilization exceeds it and otherwise
\* max(bytes/utilization, bytes+minFree), which is the stated formula whenever
\* minFree <= maxFree; max_allowed_footprint_ is that target clamped to the
\* growth limit, and next_gc_type_ is sticky.
C14_NonStickyTargetCapFirst ==
  [][\A t \in Threads :
       (GrowStep(t) /\ loc[t].gc_type # "Sticky") =>
         LET b == num_bytes_allocated
             target == IF ByUtilization(b) > b + sizes.max_free
                         THEN b + sizes.max_free
                         ELSE Max(ByUtilization(b), b + sizes.min_free)
         IN /\ max_allowed_footprint' = Min(target, sizes.growth_limit)
            /\ sizes.min_free <= sizes.max_free =>
                 target = Max(Min(ByUtilization(b), b + sizes.max_free),
                              b + sizes.min_free)
            /\ next_gc_type' = "Sticky"]_vars

\* A non-sticky GC has grown the heap with min_free_ above max_free_ and
\* bytes/utilization above bytes+maxFree: the footprint is bytes+maxFree.
C14_Witness ==
  \E t \in Threads :
    /\ pc[t] = "g_finish" /\ loc[t].gc_type # "Sticky"
    /\ sizes.min_free > sizes.max_free
    /\ ByUtilization(num_bytes_allocated) > num_bytes_allocated + sizes.max_free
    /\ max_allowed_footprint = num_bytes_allocated + sizes.max_free

\* C15: after GrowForUtilization for a sticky GC, next_gc_type_ is sticky iff
\* bytes+minFree <= max_allowed_footprint_ (before the call), otherwise
\* partial with a zygote space and full without; the footprint becomes
\* bytes+maxFree exactly when bytes+maxFree < max_allowed_footprint_ and
\* otherwise max(bytes, max_allowed_footprint_).
C15_StickyGrowth ==
  [][\A t \in Threads :
       (GrowStep(t) /\ loc[t].gc_type = "Sticky") =>
         LET b == num_bytes_allocated
             fp == max_allowed_footprint
         IN /\ (next_gc_type' = "Sticky") <=> (b + sizes.min_free <= fp)
            /\ next_gc_type' # "Sticky" =>
                 next_gc_type' = (IF have_zygote_space THEN "Partial" ELSE "Full")
            /\ IF b + sizes.max_free < fp
                 THEN max_allowed_footprint' = b + sizes.max_free
                 ELSE max_allowed_footprint' = Max(b, fp)]_vars

\* A sticky GC has grown a heap with a zygote space and the next GC is partial.
C15_Witness ==
  \E t \in Threads :
    /\ pc[t] = "g_finish" /\ loc[t].gc_type = "Sticky"
    /\ have_zygote_space /\ next_gc_type = "Partial"

\* C16: after a GC with a concurrent collector, concurrent_start_bytes_ =
\* max(max_allowed_footprint_ - r, bytes) with r = allocation_rate_ x GC
\* duration clamped to [128 KiB, 512 KiB]; the subtraction never wraps, so
\* bytes <= concurrent_start_bytes_ <= max(max_allowed_footprint_, bytes).
C16_ConcurrentStart ==
  [][\A t \in Threads :
       (GrowStep(t) /\ concurrent_gc) =>
         \E d \in DurationChoices :
           LET b == num_bytes_allocated
               fp == max_allowed_footprint'
               r == Max(Min((allocation_rate * d) \div 1000,
                            kMaxConcurrentRemainingBytes),
                        kMinConcurrentRemainingBytes)
           IN /\ concurrent_start_bytes' = Max(fp - r, b)
              /\ b <= concurrent_start_bytes'
              /\ concurrent_start_bytes' <= Max(fp, b)]_vars

\* C17: native_bytes_allocated_ is never negative and equals the sum of the
\* registered allocations minus the sum of the frees that did not raise,
\* under every interleaving of RegisterNativeAllocation and
\* RegisterNativeFree calls.
C17_CounterIsSum ==
  /\ native_bytes_allocated >= 0
  /\ native_bytes_allocated = native_registered

\* A RegisterNativeAllocation call of thread t has returned.
NativeAllocDone(t) == pc[t] = "done" /\ loc[t].op = "native_alloc"
\* In the sequence ev, some "fin" comes before some "gc".
FinThenGc(ev) ==
  \E i, j \in 1..Len(ev) : i < j /\ ev[i] = "fin" /\ ev[j] \in {"gc", "gc_for_alloc"}
\* The sequence ev ends with "gc" followed by "fin".
EndsGcThenFin(ev) ==
  Len(ev) >= 2 /\ ev[Len(ev) - 1] = "gc" /\ ev[Len(ev)] = "fin"

\* C18: a RegisterNativeAllocation call that raised native_bytes_allocated_
\* above native_footprint_limit_ has, when it returns, run finalization and
\* after it a collection.
C18_FinalizationThenGc ==
  \A t \in Threads :
    (NativeAllocDone(t) /\ hist[t].raised) => FinThenGc(hist[t].ev)

\* C18, as the code has it: a RegisterNativeAllocation call that, after the
\* wait for a running collection, still found native_bytes_allocated_ above
\* native_footprint_limit_ has, when it returns, called
\* CollectGarbageInternal and after it RunFinalization, as its last two acts;
\* a call that did not find it so has made no such CollectGarbageInternal
\* call.
C18_GcThenFinalization ==
  \A t \in Threads :
    NativeAllocDone(t) =>
      IF hist[t].over
        THEN EndsGcThenFin(hist[t].ev)
        ELSE \A i \in 1..Len(hist[t].ev) : hist[t].ev[i] # "gc"

\* A call that raised the counter above the limit returned after a
\* collection followed by finalization, with no finalization before the
\* collection.
C18_Witness ==
  \E t \in Threads :
    /\ NativeAllocDone(t) /\ hist[t].raised /\ hist[t].over
    /\ hist[t].ev = <<"gc", "fin">>

\* ProcessReferences has returned to the collector of thread t.
ProcessReferencesDone(t) == pc[t] = "r_end"
SoftRefs == {r \in RefObjects : KindOf[r] = "soft"}
\* The soft reference r had a referent when the collection started and has
\* none now.
ClearedInCycle(r) == objects.at_start[r] # "null" /\ referent[r] = "null"

\* C19: at the end of every ProcessReferences call the soft, weak, finalizer
\* and phantom reference queues are all empty.
C19_QueuesEmptyAtEnd ==
  \A t \in Threads :
    ProcessReferencesDone(t) =>
      \A k \in QueueKinds : reference_queues[k] = <<>>

\* A ProcessReferences call without clear_soft has ended after a soft
\* reference reached only through a finalizer referent went through the
\* second pass over the soft queue.
C19_Witness ==
  \E t \in Threads :
    /\ ProcessReferencesDone(t) /\ ~loc[t].soft /\ ~is_zygote
    /\ "s2" \notin loc[t].reached
    /\ "s2" \in Elems(reference_queues.cleared)
    /\ "f1" \in Elems(reference_queues.cleared)

\* C20: when ProcessReferences ends, (1) without clear_soft and outside the
\* zygote no soft reference has been cleared in the cycle, and (2) with
\* clear_soft or in the zygote every marked soft reference whose referent is
\* unmarked has been cleared and is on the cleared list.
C20_SoftPolicy ==
  \A t \in Threads :
    ProcessReferencesDone(t) =>
      IF ~loc[t].soft /\ ~is_zygote
        THEN \A r \in SoftRefs : ~ClearedInCycle(r)
        ELSE \A r \in SoftRefs \cap mark_bits :
               (objects.at_start[r] # "null" /\ objects.at_start[r] \notin mark_bits)
                 => ClearedInCycle(r) /\ r \in Elems(reference_queues.cleared)

\* C20, as the code has it: when ProcessReferences ends, (1) without
\* clear_soft and outside the zygote every soft reference reached before the
\* finalizer referents were marked keeps its referent, which is marked, while
\* a soft reference reached only from a finalizer referent is cleared like a
\* weak one, and (2) in every cycle every marked soft reference whose referent
\* is unmarked has been cleared and is on the cleared list.
C20_SoftPolicyBeforeFinalizers ==
  \A t \in Threads :
    ProcessReferencesDone(t) =>
      /\ (~loc[t].soft /\ ~is_zygote) =>
           \A r \in SoftRefs \cap loc[t].reached :
             objects.at_start[r] # "null" =>
               referent[r] = objects.at_start[r] /\ referent[r] \in mark_bits
      /\ \A r \in SoftRefs \cap mark_bits :
           (objects.at_start[r] # "null" /\ objects.at_start[r] \notin mark_bits)
             => ClearedInCycle(r) /\ r \in Elems(reference_queues.cleared)

\* A cycle without clear_soft has ended in which the soft reference s1 kept
\* a referent that only it reached, and the soft reference s2, reached from a
\* finalizer referent, was cleared.
C20_Witness ==
  \E t \in Threads :
    /\ ProcessReferencesDone(t) /\ ~loc[t].soft /\ ~is_zygote
    /\ "s1" \in loc[t].reached /\ "a" \notin objects.roots
    /\ referent["s1"] = "a" /\ "a" \in mark_bits
    /\ "s2" \notin loc[t].reached /\ ClearedInCycle("s2")

\* C21: every reference on the cleared list has no referent and has a
\* pendingNext, in every state; once EnqueueClearedReferences has returned
\* the cleared list is empty.
C21_ClearedList ==
  /\ \A r \in Elems(reference_queues.cleared) :
       referent[r] = "null" /\ PendingNext(r) # "null"
  /\ \A t \in Threads :
       (pc[t] = "done" /\ loc[t].op = "references") => reference_queues.cleared = <<>>

\* ProcessReferences has returned with a cleared soft reference and an
\* enqueued finalizer reference on the cleared list.
C21_Witness ==
  \E t \in Threads :
    /\ ProcessReferencesDone(t)
    /\ {"s1", "f1"} \subseteq Elems(reference_queues.cleared)

\* The passes ev are: soft, weak, any number of finalizer enqueueings, soft,
\* weak, phantom.
PassOrder(ev) ==
  /\ Len(ev) >= 5
  /\ ev[1] = "soft" /\ ev[2] = "weak"
  /\ \A i \in 3..(Len(ev) - 3) : ev[i] = "finalizer"
  /\ ev[Len(ev) - 2] = "soft" /\ ev[Len(ev) - 1] = "weak" /\ ev[Len(ev)] = "phantom"
FinalizerRefs == {r \in RefObjects : KindOf[r] = "finalizer"}
\* When ProcessReferences ends its passes were made in order, every marked
\* finalizer reference whose referent was not reached before has been
\* enqueued with its referent kept in the zombie field, and what the marked
\* objects refer to is marked.
C22Inv ==
  \A t \in Threads :
    ProcessReferencesDone(t) =>
      /\ PassOrder(hist[t].ev)
      /\ \A f \in FinalizerRefs \cap mark_bits :
           (objects.at_start[f] # "null" /\ objects.at_start[f] \notin loc[t].reached)
             => /\ f \in Elems(reference_queues.cleared)
                /\ objects.zombie[f] = objects.at_start[f]
                /\ objects.zombie[f] \in mark_bits
      /\ \A o \in PlainObjects \cap mark_bits : objects.fields[o] \subseteq mark_bits
\* A step that resurrects a referent does so for a finalizer reference that
\* had resurrected none, and for a referent no reference had resurrected.
C22Step ==
  \A f \in RefObjects :
    objects'.zombie[f] # objects.zombie[f] =>
      /\ objects.zombie[f] = "null"
      /\ \A g \in RefObjects : objects.zombie[g] # objects'.zombie[f]

\* C22: within one ProcessReferences call soft and weak references are
\* cleared first, then each finalizer reference with an unmarked referent is
\* enqueued and its referent marked with its transitive closure, then the
\* soft and weak clearing is re-run, and only then phantom references are
\* cleared; over any number of GC cycles a referent is resurrected by
\* finalizer enqueueing at most once, and once if it was unmarked.
C22_FinalizerOrdering == []C22Inv /\ [][C22Step]_vars

\* A ProcessReferences call has ended that enqueued the finalizer reference
\* f1 between the two soft and weak passes and marked its referent b.
C22_Witness ==
  \E t \in Threads :
    /\ ProcessReferencesDone(t)
    /\ hist[t].ev = <<"soft", "weak", "finalizer", "soft", "weak", "phantom">>
    /\ objects.zombie["f1"] = "b" /\ "b" \in mark_bits


\* C23: in a space without a mod-union table that is not a bump-pointer
\* space, the card covering an object is DIRTY after a reference store into
\* the object, DIRTY - 1 after one ProcessCards with no further store and
\* CLEAN after a second one; a store in between makes it DIRTY again.
AgedSpace(s) ==
  s \in continuous_spaces /\ ~FindModUnionTableFromSpace(s) /\ ~IsBumpPointerSpace(s)
C23_CardAging ==
  \A s \in CardSpaces :
    AgedSpace(s) =>
      /\ card_age[s] = 0 => card_table[s] = kCardDirty
      /\ card_age[s] = 1 => card_table[s] = kCardDirty - 1
      /\ card_age[s] >= 2 => card_table[s] = kCardClean
C23_Witness ==
  \E s \in CardSpaces :
    AgedSpace(s) /\ card_age[s] = 2 /\ card_table[s] = kCardClean

\* C29: every closure that RequestCheckpoint accepted is run exactly once, by
\* the first RunCheckpointFunction that copies the slots after the request;
\* RunCheckpointFunction is entered only with a closure installed; and after
\* RunCheckpointFunction the slots are null and kCheckpointRequest is clear.
Installed == {checkpoint_functions[i] : i \in 1..kMaxCheckpoints} \ {0}
Copied(t) == IF pc[t] = "rf_run"
               THEN {loc[t].checkpoints[i] : i \in 1..kMaxCheckpoints} \ {0}
               ELSE {}
TimesRun(f) == Cardinality({i \in 1..Len(closures.ran) : closures.ran[i] = f})
RanCheckpoint(t) == pc[t] = "done" /\ loc[t].op = "checkpoint"
RunExactlyOnce ==
  /\ \A f \in closures.accepted :
       LET pending == f \in Installed \/ \E t \in Mutators : f \in Copied(t) IN
         \/ TimesRun(f) = 1 /\ ~pending
         \/ TimesRun(f) = 0 /\ pending
  /\ \A t \in Mutators :
       RanCheckpoint(t) =>
         \A f \in closures.accepted : f <= loc[t].seen => TimesRun(f) = 1
EnteredWithClosure ==
  /\ state_and_flags.checkpoint_request => Installed # {}
  /\ \A t \in Mutators : pc[t] = "rf_lock" => Installed # {}
  /\ ~aborted
C29_Checkpoints ==
  /\ RunExactlyOnce
  /\ EnteredWithClosure
  /\ \A t \in Mutators :
       RanCheckpoint(t) => Installed = {} /\ ~state_and_flags.checkpoint_request
\* C29 with its last part as the code has it: when RunCheckpointFunction
\* returns, the slots hold only closures requested after it copied and cleared
\* them under the lock, and the flag is set only for those.
C29_CheckpointsSinceCopy ==
  /\ RunExactlyOnce
  /\ EnteredWithClosure
  /\ \A t \in Mutators :
       RanCheckpoint(t) =>
         /\ \A f \in Installed : f > loc[t].seen
         /\ state_and_flags.checkpoint_request => \E f \in Installed : f > loc[t].seen
C29_Witness ==
  \E t \in Mutators :
    /\ RanCheckpoint(t)
    /\ Len(closures.ran) >= 2
    /\ Installed # {} /\ state_and_flags.checkpoint_request

\* C30: in every state the collector configuration is one of the three
\* consistent tuples (SS or GSS, not concurrent, plan [full], bump-pointer or
\* TLAB allocator; MS, not concurrent, plan [sticky, partial, full], malloc
\* allocator; CMS, concurrent, the same plan and allocator), so gc_plan_ is
\* not empty and CollectGarbage requests a full collection.
ConsistentTuple ==
  \/ /\ collector_type \in {"SS", "GSS"} /\ ~concurrent_gc
     /\ gc_plan = <<"Full">>
     /\ current_allocator \in {"BumpPointer", "TLAB"}
  \/ /\ collector_type = "MS" /\ ~concurrent_gc
     /\ gc_plan = <<"Sticky", "Partial", "Full">>
     /\ current_allocator \in {"RosAlloc", "DlMalloc"}
  \/ /\ collector_type = "CMS" /\ concurrent_gc
     /\ gc_plan = <<"Sticky", "Partial", "Full">>
     /\ current_allocator \in {"RosAlloc", "DlMalloc"}
C30_ConsistentConfiguration ==
  /\ ConsistentTuple
  /\ gc_plan # <<>>
  /\ \A t \in Threads :
       pc[t] = "g_enter" /\ loc[t].op = "collect" => loc[t].gc_type = "Full"

\* C28: an object copied by MarkNonForwardedObject is placed at the start of
\* a bin of the smallest size that is at least its aligned size, and the
\* rest of that bin, if any, becomes a bin again; when no bin fits the object
\* is appended in the to-space and the bins stay as they are.
BinSet(b) == {b[i] : i \in 1..Len(b)}
C28_BestFit ==
  forwarded.n > 0 =>
    LET before == BinSet(forwarded.bins_before)
        sz == forwarded.object_size
        fit == {b \in before : b[1] >= sz}
    IN IF fit # {}
         THEN \E b \in fit :
                /\ \A c \in fit : b[1] <= c[1]
                /\ forwarded.forward_address = b[2]
                /\ BinSet(bins) = (before \ {b}) \cup
                                    (IF b[1] > sz THEN {<<b[1] - sz, b[2] + sz>>} ELSE {})
                /\ Len(bins) = Cardinality(BinSet(bins))
                /\ to_space_end = forwarded.end_before
         ELSE /\ forwarded.forward_address = forwarded.end_before
              /\ to_space_end = forwarded.end_before + sz
              /\ bins = forwarded.bins_before
C28_Witness ==
  /\ forwarded.n > 0
  /\ \E b, c \in BinSet(forwarded.bins_before) :
       /\ b[1] >= forwarded.object_size /\ c[1] > b[1]
       /\ forwarded.forward_address = b[2]
       /\ Len(forwarded.bins_before) >= 3
       /\ forwarded.bins_before[1][1] < forwarded.object_size

\* C24: continuous_spaces_ is sorted by ascending Begin and no two spaces of
\* the list have overlapping [Begin, End) ranges, after any AddSpace,
\* RemoveSpace, PreZygoteFork and TransitionCollector.
Listed == {space_vector[i] : i \in 1..Len(space_vector)}
C24_SortedNoOverlap ==
  /\ \A i \in 1..(Len(space_vector) - 1) :
       space_range[space_vector[i]].begin < space_range[space_vector[i + 1]].begin
  /\ \A a, b \in Listed :
       a # b => \/ space_range[a].end <= space_range[b].begin
                \/ space_range[b].end <= space_range[a].begin

\* The zygote's fork was prepared on mappings the kernel did not place in the
\* order they were created, and the collector was changed afterwards.
C24_Witness ==
  /\ have_zygote_space
  /\ Len(space_vector) = 5
  /\ space_range["malloc_space"].begin > space_range["temp_space"].begin
  /\ space_range["non_moving_space"].begin < space_range["bump_pointer_space"].begin
  /\ \E t \in RuntimeThreads : pc[t] = "done" /\ loc[t].op = "tc"

\* C25: after any GC the heap-wide counter num_bytes_allocated_ equals the
\* bytes allocated in the spaces of alloc_spaces_ plus those of the large
\* object space.
RECURSIVE SumBytes(_)
SumBytes(S) ==
  IF S = {} THEN 0
  ELSE LET s == CHOOSE x \in S : TRUE IN space_bytes[s] + SumBytes(S \ {s})
AfterGc == last_gc_type # "None" /\ running = {} /\ ~aborted
C25_BytesAccounted ==
  AfterGc =>
    num_bytes_allocated = SumBytes(alloc_spaces \ {"large_object_space"})
                            + space_bytes["large_object_space"]

\* The points at which the marking of a collection is over and nothing has
\* been swept yet: the end of ProcessReferences, the end of the final-mark
\* pause.
MarkingOver(t) == pc[t] \in {"r_end", "c_resume"}

\* C26 as stated: after a full mark-sweep collection the objects with their
\* mark bit set are exactly the objects reachable from the roots.
C26_MarkedIsReachable ==
  \A t \in Threads :
    MarkingOver(t) => mark_bits = ReachableFrom(objects.roots)

\* C26 amended: after a full mark-sweep collection every object reachable
\* from the roots is marked, and every marked object is reachable from the
\* roots when no mutator ran during the marking (the collector is not the
\* concurrent one).
C26_ReachableIsMarked ==
  \A t \in Threads :
    MarkingOver(t) =>
      /\ ReachableFrom(objects.roots) \subseteq mark_bits
      /\ (pc[t] = "r_end" \/ ~concurrent_gc) =>
           mark_bits \subseteq ReachableFrom(objects.roots)

\* The marking of a concurrent collection is over with an object marked that
\* a mutator has unlinked since.
C26_Witness ==
  \E t \in Threads :
    /\ pc[t] = "c_resume" /\ concurrent_gc
    /\ mark_bits \ ReachableFrom(objects.roots) # {}
    /\ \E o \in PlainObjects : object_card[o] = kCardDirty

\* C27: under the concurrent collector, however the mutator's stores and card
\* marks interleave with the marking, no object reachable from the roots is
\* swept and the heap reference verification before the sweep passes.
C27_NoReachableSwept ==
  /\ swept \cap ReachableFrom(objects.roots) = {}
  /\ ~aborted

\* A concurrent collection has swept after its final-mark pause marked an
\* object that the marking phase had missed and that is still reachable.
C27_Witness ==
  \E t \in RuntimeThreads :
    /\ concurrent_gc /\ ~aborted
    /\ pc[t] = "done" /\ loc[t].op = "marksweep"
    /\ final_marked \cap ReachableFrom(objects.roots) # {}
    /\ final_marked \cap swept = {}

\* C40: disable_moving_gc_count_ never wraps: every step that changes it
\* adds one or subtracts one, so the counter is the number of increments
\* minus the number of decrements, and a decrement at zero does not leave a
\* huge value behind.
C40_NeverWraps ==
  [][disable_moving_gc_count' # disable_moving_gc_count =>
       disable_moving_gc_count' - disable_moving_gc_count \in {1, -1}]_vars

\* How many times the reference ref is on the queue of class k.
TimesOn(k, ref) ==
  Cardinality({i \in 1..Len(reference_queues[k]) : reference_queues[k][i] = ref})
\* The call of DelayReferenceReferent by thread t has returned.
Delayed(t) == pc[t] = "done" /\ loc[t].op = "delay"

\* C31: however often and by however many GC workers a reference is scanned,
\* it is on the queue of its class at most once and on no other queue; it is
\* there once a scan that found its referent non-null and unmarked has
\* returned; a scan that found the referent null or marked leaves the queues
\* as they are, and updates the referent to the forwarding address when the
\* marked referent was moved.
C31_EnqueuedOnce ==
  /\ [](\A ref \in RefObjects, k \in QueueKinds :
          TimesOn(k, ref) <= (IF k = KindOf[ref] THEN 1 ELSE 0))
  /\ [](\A t \in Threads :
          Delayed(t) /\ loc[t].outcome = "enqueue" =>
            TimesOn(KindOf[loc[t].target], loc[t].target) = 1)
  /\ [][\A t \in Threads :
          (pc[t] # "done" /\ Delayed(t)' /\ loc'[t].outcome # "enqueue") =>
            /\ reference_queues' = reference_queues
            /\ loc'[t].outcome = "update" =>
                 referent'[loc'[t].target] \in {ToSpace[o] : o \in mark_bits}]_vars

\* Both workers have scanned the same reference and found its referent
\* unmarked; a scan of another reference updated a moved referent.
C31_Witness ==
  /\ \A t \in Threads : Delayed(t) /\ loc[t].outcome = "enqueue"
  /\ loc["t1"].target = loc["t2"].target
  /\ \E ref \in RefObjects : referent[ref] \in {ToSpace[o] : o \in PlainObjects}

HeapState ==
  <<heapCfg, heapGc, heapSpaces, heapSizes, config, native, refs, cards, other,
    disable_moving_gc_count, process_state, num_bytes_allocated, space_bytes,
    allocation_rate, zygote_creation_lock, suspend_all_owner, running, aborted>>

\* C33: PreZygoteFork takes effect at most once, whatever the number of
\* sequential or concurrent calls: have_zygote_space_ is set by one step of
\* the call that holds zygote_creation_lock_, which creates the new main
\* space, the zygote space's mod-union table and the new non-moving space
\* with it and is never undone; only one call is past the test at a time;
\* a call that finds have_zygote_space_ set returns leaving the heap's state
\* unchanged.
C33_ZygoteForkOnce ==
  /\ [](\A t \in Threads :
          (loc[t].op = "pzf" /\ pc[t] # "done") =>
             zygote_creation_lock = t /\ ~have_zygote_space)
  /\ [][have_zygote_space' # have_zygote_space =>
          /\ ~have_zygote_space /\ have_zygote_space'
          /\ \E t \in Threads :
               /\ loc[t].op = "pzf" /\ pc[t] = "p_spaces" /\ pc'[t] = "done"
               /\ zygote_creation_lock = t
               /\ \A u \in Threads \ {t} : pc'[u] = pc[u]
          /\ ~FindModUnionTableFromSpace("malloc_space")
          /\ FindModUnionTableFromSpace("malloc_space")'
          /\ continuous_spaces \cap {"main_space", "non_moving_space"} = {}
          /\ main_space'
          /\ {"main_space", "non_moving_space"} \subseteq continuous_spaces'
          /\ {"main_space", "non_moving_space"} \subseteq alloc_spaces'
          /\ "malloc_space" \notin alloc_spaces']_vars
  /\ [][\A t \in Threads :
          (pc[t] = "idle" /\ loc'[t].op = "pzf" /\ have_zygote_space) =>
             pc'[t] = "done" /\ HeapState' = HeapState]_vars

\* Both threads have called PreZygoteFork: one call created the zygote space,
\* the other returned at the test.
C33_Witness ==
  /\ have_zygote_space
  /\ \A t \in Threads : pc[t] = "done" /\ loc[t].op = "pzf"
  /\ \E t, u \in Threads : loc[t].outcome = "Full" /\ loc[u].outcome = "none"

\* The step is a RequestConcurrentGC call of thread t.
Requests(t) ==
  /\ hist'[t].ev # hist[t].ev
  /\ hist'[t].ev # <<>>
  /\ hist'[t].ev[Len(hist'[t].ev)] = "request"

\* C34: at most one concurrent-GC request is outstanding: neither the
\* allocation path nor RegisterNativeAllocation calls RequestConcurrentGC
\* while concurrent_start_bytes_ still has the maximum value an earlier
\* request left, and once a request is issued IsGCRequestPending() is true.
C34_OneRequestOutstanding ==
  [][\A t \in Threads :
       Requests(t) => concurrent_start_bytes # kSizeMax /\ IsGCRequestPending']_vars

\* C39: no concurrent-GC request is lost: under fair scheduling, whenever
\* concurrent_start_bytes_ has the maximum value a RequestConcurrentGC left,
\* a later GrowForUtilization recomputes it to a finite value (or the process
\* has stopped on a failed check).
C39_RequestServed ==
  (concurrent_start_bytes = kSizeMax) ~> (concurrent_start_bytes # kSizeMax \/ aborted)

\* C35: after any sequence of ModifySuspendCount calls suspend_count_ >=
\* debug_suspend_count_ >= 0 and kSuspendRequest is set iff suspend_count_ is
\* not zero; a decrement requested at suspend_count_ zero is fatal and leaves
\* both counts unchanged.
C35_SuspendCountInvariant ==
  /\ [](thread_suspend_count_lock = NoThread =>
          /\ suspend_count >= debug_suspend_count
          /\ debug_suspend_count >= 0
          /\ state_and_flags.suspend_request <=> suspend_count # 0)
  /\ [][\A t \in Threads :
          (/\ pc[t] = "s_modify" /\ loc[t].delta < 0 /\ suspend_count = 0
           /\ thread_suspend_count_lock' # t \/ aborted') =>
             aborted' /\ suspension' = suspension]_vars

\* C36: a RequestCheckpoint call that returns false has no side effect.  No
\* step of a call changes the state-and-flags word except the successful
\* compare-and-swap; a call that finds the target not Runnable or every slot
\* occupied changes no slot; a call whose compare-and-swap fails had put its
\* closure into a slot that was free, nothing else touched the slots since,
\* and the failing step empties that slot again.  Whenever
\* thread_suspend_count_lock_ is free, kCheckpointRequest is set iff some
\* slot holds a closure.
C36_FailsWithoutSideEffects ==
  /\ [](thread_suspend_count_lock = NoThread =>
          (state_and_flags.checkpoint_request <=> FreeSlots # 1..kMaxCheckpoints))
  /\ [](\A t \in Threads :
          pc[t] = "rc_cas" =>
            /\ thread_suspend_count_lock = t
            /\ checkpoint_functions[loc[t].available_checkpoint] = loc[t].function)
  /\ [][\A t \in Threads :
          (loc[t].op = "request" /\ pc'[t] # pc[t]) =>
            /\ loc'[t].outcome # "true" => state_and_flags' = state_and_flags
            /\ pc[t] = "rc_read" => checkpoint_functions' = checkpoint_functions
            /\ pc[t] = "rc_install" =>
                 IF pc'[t] = "rc_cas"
                   THEN /\ checkpoint_functions[loc'[t].available_checkpoint] = 0
                        /\ checkpoint_functions' =
                             [checkpoint_functions EXCEPT
                                ![loc'[t].available_checkpoint] = loc[t].function]
                   ELSE /\ loc'[t].outcome = "false"
                        /\ checkpoint_functions' = checkpoint_functions
            /\ (pc[t] = "rc_cas" /\ loc'[t].outcome = "false") =>
                 checkpoint_functions' =
                   [checkpoint_functions EXCEPT ![loc[t].available_checkpoint] = 0]]_vars
  /\ [][(\E t \in Threads : pc[t] = "rc_cas" /\ pc'[t] = "rc_cas") =>
          checkpoint_functions' = checkpoint_functions]_vars

\* A RequestCheckpoint call has returned false after it installed its closure
\* and its compare-and-swap failed: the target had left Runnable meanwhile.
C36_Witness ==
  \E t \in Threads :
    /\ pc[t] = "done" /\ loc[t].op = "request" /\ loc[t].outcome = "false"
    /\ loc[t].available_checkpoint # 0
    /\ state_and_flags.state = "Suspended"

\* C37: the assertions of TransitionCollector hold whenever its body is
\* reached: a transition to SS/GSS finds main_space_ non-null and
\* allocator_mem_map_ null, a transition from a compacting collector to
\* MS/CMS finds allocator_mem_map_ non-null and main_space_ null.
C37_TransitionAssertions ==
  \A t \in Threads :
    pc[t] = "t_body" =>
      IF IsCompactingGC(loc[t].target)
        THEN main_space /\ ~allocator_mem_map
        ELSE IsCompactingGC(collector_type) => allocator_mem_map /\ ~main_space

\* The addresses of a <<size, position>> pair (a bin or a placed object).
Range(b) == b[2]..(b[2] + b[1] - 1)
\* The total size of the pairs of a sequence.
RECURSIVE TotalSize(_)
TotalSize(b) == IF b = <<>> THEN 0 ELSE b[1][1] + TotalSize(Tail(b))
\* The pairs of sequence b do not overlap one another.
PairwiseDisjoint(b) ==
  \A i, j \in 1..Len(b) : i # j => Range(b[i]) \cap Range(b[j]) = {}

\* C38: after BuildBins and after every placement by MarkNonForwardedObject
\* the bins are pairwise disjoint ranges inside the space, disjoint from
\* every live and every placed object, and none is empty; a placement into a
\* bin lowers the total bin size by the object's aligned size (an object
\* appended in the to-space leaves the bins as they are); no two placed
\* objects overlap each other or a live object.
C38_BinInvariant ==
  forwarded.built =>
    /\ PairwiseDisjoint(bins)
    /\ PairwiseDisjoint(forwarded.placed)
    /\ \A i \in 1..Len(bins) :
         /\ bins[i][1] > 0
         /\ Range(bins[i]) \subseteq 0..(SpaceUnits - 1)
         /\ Range(bins[i]) \cap forwarded.live = {}
         /\ \A j \in 1..Len(forwarded.placed) :
              Range(bins[i]) \cap Range(forwarded.placed[j]) = {}
    /\ \A j \in 1..Len(forwarded.placed) :
         Range(forwarded.placed[j]) \cap forwarded.live = {}
    /\ forwarded.n > 0 =>
         TotalSize(bins) =
           TotalSize(forwarded.bins_before) -
             (IF forwarded.forward_address < forwarded.end_before
                THEN forwarded.object_size ELSE 0)

\* Objects were copied into bins between live objects, one of them splitting
\* a bin, and bins remain.
C38_Witness ==
  /\ forwarded.n >= 2 /\ to_space_end = SpaceUnits
  /\ Len(bins) >= 2
  /\ Cardinality(forwarded.live) >= 3
  /\ \E j \in 1..Len(forwarded.placed) : forwarded.placed[j][1] > 1
  /\ TotalSize(bins) < TotalSize(forwarded.bins_before)
  /\ Len(bins) = Len(forwarded.bins_before)

============================================================================
